---- MODULE Spec2Model ----
(***************************************************************************)
(* GoGoGo terminal relay: the web server's relay engine (web-server.ts),   *)
(* the PTY supervisor (pty.ts), the tunnel supervisor                      *)
(* (cloudflare-tunnel.ts) and the session orchestrator (session.ts) that   *)
(* wires them.  One action per event-loop callback; the callbacks run to   *)
(* completion on one thread, so each is one atomic step.                   *)
(***************************************************************************)
EXTENDS Integers, Sequences, FiniteSets, TLC

(***************************************************************************)
(* Bounds of the model.  The source's MAX_BUFFER_SIZE = 5000,              *)
(* BUFFER_TRIM_SIZE = 3000, MAX_CONNECTIONS = 10, MSG_RATE_LIMIT = 100 and *)
(* MSG_RATE_WINDOW_MS = 1000 are scaled down so that the trim, the         *)
(* connection ceiling and the rate ceiling are all reached.                *)
(***************************************************************************)
MAX_BUFFER_SIZE == 3
BUFFER_TRIM_SIZE == 2
MAX_CONNECTIONS == 2
MSG_RATE_LIMIT == 2
MSG_RATE_WINDOW_MS == 2
\* socket identities: one more than the ceiling
MaxSockets == MAX_CONNECTIONS + 1
\* the PTY emits at most this many chunks in one behaviour
MaxChunks == 5
\* verifyServerStarted: maxAttempts (10 in the code)
maxAttempts == 3
MaxSpawns == 2

Sockets == 1..MaxSockets

(***************************************************************************)
(* Terminal data.  A chunk is a sequence of tokens; a token is either a    *)
(* piece of text or one whole escape sequence.                             *)
(***************************************************************************)
ClearTokens == {"ESC[2J", "ESC[3J", "ESCc"}

\* /\x1b\[[23]J|\x1bc/ matching at one token
CLEAR_SCREEN_RE(tok) == tok \in ClearTokens

\* the chunks the modelled PTY emits: text, a bare clear, text after one clear,
\* a clear after text, text after two clears, text around and between clears
Chunks == {<<"x">>, <<"ESC[2J">>, <<"ESC[2J", "x">>, <<"x", "ESC[2J">>,
           <<"ESC[2J", "ESC[2J", "x">>, <<"x", "ESC[2J", "x", "x">>}

\* the positions of data.matchAll(/\x1b\[[23]J|\x1bc/g)
Matches(data) == {i \in 1..Len(data) : CLEAR_SCREEN_RE(data[i])}

Max(S) == CHOOSE m \in S : \A k \in S : k <= m

\* data.slice(last.index + last[0].length), last being the last match
AfterLastClear(data) == SubSeq(data, Max(Matches(data)) + 1, Len(data))

\* arr.slice(-n)
SliceLast(arr, n) ==
    IF Len(arr) <= n THEN arr ELSE SubSeq(arr, Len(arr) - n + 1, Len(arr))

\* mutant: the trim removes records from the middle of the log, keeping the oldest
AppendToLog_TrimMiddle(buf, seq, data) ==
    LET pushed == Append(buf, [seq |-> seq, data |-> data])
    IN  IF \E i \in 1..Len(data) : CLEAR_SCREEN_RE(data[i])
        THEN IF AfterLastClear(data) # <<>>
             THEN <<[seq |-> seq, data |-> AfterLastClear(data)]>>
             ELSE <<>>
        ELSE IF Len(pushed) > MAX_BUFFER_SIZE
             THEN <<pushed[1]>> \o SliceLast(pushed, BUFFER_TRIM_SIZE - 1)
             ELSE pushed

\* mutant: the trim keeps one record too many
AppendToLog_TrimLate(buf, seq, data) ==
    LET pushed == Append(buf, [seq |-> seq, data |-> data])
    IN  IF \E i \in 1..Len(data) : CLEAR_SCREEN_RE(data[i])
        THEN IF AfterLastClear(data) # <<>>
             THEN <<[seq |-> seq, data |-> AfterLastClear(data)]>>
             ELSE <<>>
        ELSE IF Len(pushed) > MAX_BUFFER_SIZE
             THEN SliceLast(pushed, BUFFER_TRIM_SIZE + 1)
             ELSE pushed

\* mutant: the log is cut at the first clear-screen sequence of the chunk
AppendToLog_FirstClear(buf, seq, data) ==
    LET pushed == Append(buf, [seq |-> seq, data |-> data])
        first == CHOOSE i \in Matches(data) : \A k \in Matches(data) : i <= k
        after == SubSeq(data, first + 1, Len(data))
    IN  IF Matches(data) # {}
        THEN IF after # <<>> THEN <<[seq |-> seq, data |-> after]>> ELSE <<>>
        ELSE IF Len(pushed) > MAX_BUFFER_SIZE
             THEN SliceLast(pushed, BUFFER_TRIM_SIZE)
             ELSE pushed

\* the log after the onPTYData callback has handled chunk `data` as number seq
AppendToLog(buf, seq, data) ==
    LET pushed == Append(buf, [seq |-> seq, data |-> data])
    IN  IF Matches(data) # {}
        THEN IF AfterLastClear(data) # <<>>
             THEN <<[seq |-> seq, data |-> AfterLastClear(data)]>>
             ELSE <<>>
        ELSE IF Len(pushed) > MAX_BUFFER_SIZE
             THEN SliceLast(pushed, BUFFER_TRIM_SIZE)
             ELSE pushed


(***************************************************************************)
(* JSON values carried by client messages.  A number is kept as twice its  *)
(* value, so that a half (80.5) is representable: h = 161.                 *)
(***************************************************************************)
JNum(h) == [t |-> "number", h |-> h]
\* a string that spells a number ("120"), again as twice the value
JNumStr(h) == [t |-> "string", h |-> h]
\* a string that spells no number; h is unused
JText == [t |-> "string", h |-> -1]
JUndef == [t |-> "undefined", h |-> -1]

\* typeof j === 'number'
IsNumber(j) == j.t = "number"
\* Number(j) is NaN
NumberIsNaN(j) == j.t = "undefined" \/ (j.t = "string" /\ j.h < 0)
\* Number.isInteger(Number(j))
NumberIsInteger(j) == ~NumberIsNaN(j) /\ j.h % 2 = 0
\* Number(j), for an integer
NumberOf(j) == j.h \div 2

DEFAULT_COLS == 80
DEFAULT_ROWS == 24
MAX_COLS == 500
MAX_ROWS == 200

\* mutant: the resize branch does not test the upper bounds
ValidResize_NoUpperBound(jc, jr) ==
    /\ NumberIsInteger(jc) /\ NumberIsInteger(jr)
    /\ NumberOf(jc) > 0
    /\ NumberOf(jr) > 0

\* mutant: the resize branch does not test that the dimensions are positive
ValidResize_NoLowerBound(jc, jr) ==
    /\ NumberIsInteger(jc) /\ NumberIsInteger(jr)
    /\ NumberOf(jc) <= MAX_COLS
    /\ NumberOf(jr) <= MAX_ROWS

\* the test of the resize branch on Number(msg.cols), Number(msg.rows)
ValidResize(jc, jr) ==
    /\ NumberIsInteger(jc) /\ NumberIsInteger(jr)
    /\ NumberOf(jc) > 0 /\ NumberOf(jc) <= MAX_COLS
    /\ NumberOf(jr) > 0 /\ NumberOf(jr) <= MAX_ROWS

(***************************************************************************)
(* State.                                                                  *)
(***************************************************************************)
VARIABLES
    outputBuffer,      \* web-server.ts: the output log, a sequence of [seq, data]
    nextSeq,           \* web-server.ts: the next sequence number
    connectedClients,  \* web-server.ts: the client table, socket -> clientInfo
    msgCount,          \* per connection: messages counted in the rate window
    msgWindowAge,      \* per connection: Date.now() - msgWindowStart, capped
    arrivals,          \* per connection, where time is observed: the processed
                       \* messages of the last MSG_RATE_WINDOW_MS ticks, by age
    tempDir,           \* web-server.ts: the scratch directory exists
    serverToken,       \* web-server.ts: the session token, a string ('' is <<>>)
    readyState,        \* per socket: "NONE", "OPEN" or "CLOSING"
    accepted,          \* per socket: the connection handler registered listeners
    ptyProcess,        \* pty.ts: the module holds a PTY handle
    ptyChildren,       \* the PTY subprocesses spawned and not yet ended
    ptySize,           \* the live PTY's size, [cols, rows]
    localSize,         \* pty.ts: localCols, localRows
    resizeListener,    \* pty.ts: the stdout resize listener is installed
    dataCallbacks,     \* pty.ts: number of registered data callbacks
    exitCallbacks,     \* pty.ts: registered exit callbacks, in order
    resizeCallbacks,   \* pty.ts: number of registered local-resize callbacks
    phase,             \* session.ts: startSession's position: "init", "port",
                       \* "listening", "serving", "tunnel", "running" or "exited"
    exitCode,          \* the process's exit code, -1 while it runs
    probe,             \* verifyServerStarted: attempts, the requests in flight
                       \* and the retries scheduled
    cleaningUp,        \* session.ts: the guard of cleanup()
    sigHandlers,       \* session.ts: the SIGINT and SIGTERM handlers are installed
    tunnelProcess,     \* cloudflare-tunnel.ts: the module holds a subprocess reference
    tunnelUrl,         \* cloudflare-tunnel.ts: the discovered URL, or NoUrl
    crashCallbacks,    \* cloudflare-tunnel.ts: registered crash callbacks, in order
    intentionalStop,   \* cloudflare-tunnel.ts: the intentional-stop flag
    urlFound,          \* startTunnelProcess: the closure's urlFound
    timeout,           \* startTunnelProcess: the timer, "none", "armed", "cleared", "fired"
    startPromise,      \* the promise startTunnel returned: [state, url]
    child,             \* the cloudflared subprocess: "none", "running" or "closed"
    crashCalls,        \* the crash callback invocations so far, [cb, code]
    earlier,           \* startTunnelProcess: the closure of the call before the
                       \* last one, [child, urlFound, timeout]
    signals,           \* the signals sent to the subprocess so far
    teardown,          \* the shutdown steps executed so far, in order
    out,               \* per socket: the messages the last step sent to it
    ptyCalls,          \* the calls the last step made on the PTY handle
    recv,              \* per socket: seqs of the output messages sent to this connection
    declared,          \* per socket: this connection had a resize message accepted
    last,              \* the event the last step handled
    page               \* terminal.js: the page behind socket 1, where it is
                       \* followed: its lastSeq, its socket, the messages in flight

relayVars == <<outputBuffer, nextSeq, connectedClients, tempDir, serverToken>>
rateVars == <<msgCount, msgWindowAge, arrivals>>
sockVars == <<readyState, accepted>>
ptyVars == <<ptyProcess, ptyChildren, ptySize, localSize, resizeListener,
             dataCallbacks, exitCallbacks, resizeCallbacks>>
sessVars == <<phase, exitCode, probe>>
tunVars == <<tunnelProcess, tunnelUrl, crashCallbacks, intentionalStop, urlFound,
             timeout, startPromise, child, crashCalls, earlier, signals>>
downVars == <<cleaningUp, sigHandlers, teardown>>
histVars == <<out, ptyCalls, recv, declared, last>>
nodeVars == <<relayVars, rateVars, sockVars, ptyVars, sessVars, tunVars, downVars, histVars>>
vars == <<nodeVars, page>>

Size(c, r) == [cols |-> c, rows |-> r]
NoOut == [ws \in Sockets |-> <<>>]
NoArrivals == [a \in 0..(MSG_RATE_WINDOW_MS - 1) |-> 0]
MinOf(S) == CHOOSE m \in S : \A k \in S : m <= k

\* getLocalSize()
getLocalSize == localSize

\* mutant: the minimum is taken over the clients alone once there is one
calculateMinSize_NoLocal(clients, local) ==
    LET pos == {ws \in DOMAIN clients : clients[ws].cols > 0 /\ clients[ws].rows > 0}
    IN  IF pos = {} THEN local
        ELSE Size(MinOf({clients[ws].cols : ws \in pos}),
                  MinOf({clients[ws].rows : ws \in pos}))

\* calculateMinSize() over a client table and a local size
calculateMinSize(clients, local) ==
    LET pos == {ws \in DOMAIN clients : clients[ws].cols > 0 /\ clients[ws].rows > 0}
    IN  Size(MinOf({local.cols} \cup {clients[ws].cols : ws \in pos}),
             MinOf({local.rows} \cup {clients[ws].rows : ws \in pos}))

\* the size applyMinSize() passes to resizePTY, as a sequence of at most one size
applyMinSize(clients, local) ==
    IF Cardinality(DOMAIN clients) = 0
    THEN <<local>>
    ELSE LET m == calculateMinSize(clients, local)
         IN  IF m.cols > 0 /\ m.rows > 0 THEN <<m>> ELSE <<>>

\* resizePTY(cols, rows) for each size in sizes: the calls that reach the handle
resizePTY(sizes) ==
    IF ptyProcess THEN [i \in 1..Len(sizes) |-> [op |-> "resize", size |-> sizes[i]]]
    ELSE <<>>

\* writeToPTY(data): the calls that reach the handle
writeToPTY(data) ==
    IF ptyProcess THEN <<[op |-> "write", data |-> data]>> ELSE <<>>

\* the PTY's size after the resize calls in calls
SizeAfter(calls, size) ==
    IF calls # <<>> /\ calls[Len(calls)].op = "resize"
    THEN calls[Len(calls)].size ELSE size

\* mutant: the broadcast does not test readyState
Reached_All == DOMAIN connectedClients

\* mutant: the broadcast ends at the first connection that cannot be sent to
Reached_UntilFailure ==
    {ws \in DOMAIN connectedClients :
        \A w \in DOMAIN connectedClients : w <= ws => readyState[w] = "OPEN"}

\* the sockets a broadcast reaches: in the table and OPEN
Reached == {ws \in DOMAIN connectedClients : readyState[ws] = "OPEN"}


(***************************************************************************)
(* The connection's message handler (ws.on('message')).                    *)
(***************************************************************************)
DataOf(entries) == [i \in 1..Len(entries) |-> entries[i].data]

\* mutant: the delta branch is taken for any positive lastSeq, however old
SyncReply_NoOldestCheck(buf, j) ==
    LET lastSeq2 == IF IsNumber(j) THEN j.h ELSE 0
        delta == SelectSeq(buf, LAMBDA e : 2 * e.seq > lastSeq2)
    IN  IF Len(buf) = 0 THEN <<>>
        ELSE IF lastSeq2 > 0
             THEN IF Len(delta) > 0
                  THEN <<[type |-> "history-delta", data |-> DataOf(delta),
                          lastSeq |-> delta[Len(delta)].seq]>>
                  ELSE <<>>
             ELSE <<[type |-> "history", data |-> DataOf(buf),
                     lastSeq |-> buf[Len(buf)].seq]>>

\* mutant: the delta resends the record the client already has (seq >= lastSeq)
SyncReply_ResendLast(buf, j) ==
    LET lastSeq2 == IF IsNumber(j) THEN j.h ELSE 0
        delta == SelectSeq(buf, LAMBDA e : 2 * e.seq >= lastSeq2)
    IN  IF Len(buf) = 0 THEN <<>>
        ELSE IF lastSeq2 > 0 /\ lastSeq2 >= 2 * buf[1].seq
             THEN IF Len(delta) > 0
                  THEN <<[type |-> "history-delta", data |-> DataOf(delta),
                          lastSeq |-> delta[Len(delta)].seq]>>
                  ELSE <<>>
             ELSE <<[type |-> "history", data |-> DataOf(buf),
                     lastSeq |-> buf[Len(buf)].seq]>>

\* mutant: an empty delta falls back to the full history
SyncReply_EmptyDeltaFull(buf, j) ==
    LET lastSeq2 == IF IsNumber(j) THEN j.h ELSE 0
        delta == SelectSeq(buf, LAMBDA e : 2 * e.seq > lastSeq2)
    IN  IF Len(buf) = 0 THEN <<>>
        ELSE IF lastSeq2 > 0 /\ lastSeq2 >= 2 * buf[1].seq /\ Len(delta) > 0
             THEN <<[type |-> "history-delta", data |-> DataOf(delta),
                     lastSeq |-> delta[Len(delta)].seq]>>
             ELSE <<[type |-> "history", data |-> DataOf(buf),
                     lastSeq |-> buf[Len(buf)].seq]>>

\* the sync branch's reply for msg.lastSeq = j on log buf: at most one message
SyncReply(buf, j) ==
    LET lastSeq2 == IF IsNumber(j) THEN j.h ELSE 0      \* twice lastSeq
        delta == SelectSeq(buf, LAMBDA e : 2 * e.seq > lastSeq2)
    IN  IF Len(buf) = 0 THEN <<>>
        ELSE IF lastSeq2 > 0 /\ lastSeq2 >= 2 * buf[1].seq
             THEN IF Len(delta) > 0
                  THEN <<[type |-> "history-delta", data |-> DataOf(delta),
                          lastSeq |-> delta[Len(delta)].seq]>>
                  ELSE <<>>
             ELSE <<[type |-> "history", data |-> DataOf(buf),
                     lastSeq |-> buf[Len(buf)].seq]>>

\* mutant: the synced flag is not consulted
SyncTaken_Always(info, msg) == msg.type = "sync"

\* the sync branch is taken
SyncTaken(info, msg) == msg.type = "sync" /\ ~info.synced

\* clientInfo after the handler has processed msg
InfoAfter(info, msg) ==
    IF SyncTaken(info, msg) THEN [info EXCEPT !.synced = TRUE]
    ELSE IF msg.type = "resize" /\ ValidResize(msg.cols, msg.rows)
         THEN [info EXCEPT !.cols = NumberOf(msg.cols), !.rows = NumberOf(msg.rows)]
         ELSE info

\* the image_upload branch's reply
ImageReply(msg) ==
    CASE msg.outcome = "too_large" -> [type |-> "image_uploaded", error |-> "Image too large (max 5MB)"]
      [] msg.outcome = "bad_ext"   -> [type |-> "image_uploaded", error |-> "Unsupported image format"]
      [] msg.outcome = "stored"    -> [type |-> "image_uploaded", path |-> "file"]
      [] OTHER                     -> [type |-> "image_uploaded", error |-> "Upload failed"]

\* mutant: a message that does not parse is answered with an error
ReplyTo_ErrorReply(info, buf, msg) ==
    IF SyncTaken(info, msg) THEN SyncReply(buf, msg.lastSeq)
    ELSE IF msg.type = "image_upload" /\ msg.data.t = "string" THEN <<ImageReply(msg)>>
    ELSE IF msg.type = "malformed" THEN <<[type |-> "error"]>>
    ELSE <<>>

\* what the handler sends back on the connection while processing msg
ReplyTo(info, buf, msg) ==
    IF SyncTaken(info, msg) THEN SyncReply(buf, msg.lastSeq)
    ELSE IF msg.type = "image_upload" /\ msg.data.t = "string" THEN <<ImageReply(msg)>>
    ELSE <<>>

\* the rate window is over: now - msgWindowStart > MSG_RATE_WINDOW_MS
WindowOver(ws) == msgWindowAge[ws] > MSG_RATE_WINDOW_MS

\* ++msgCount after the window check
CountAfter(ws) == (IF WindowOver(ws) THEN 0 ELSE msgCount[ws]) + 1

\* mutant: the ceiling is reached one message early
Passes_OneEarly(ws) == ~(CountAfter(ws) >= MSG_RATE_LIMIT)

\* the message passes the rate limit check
Passes(ws) == ~(CountAfter(ws) > MSG_RATE_LIMIT)

OnMessage(ws, msg) ==
    /\ phase # "exited"
    /\ accepted[ws] /\ readyState[ws] = "OPEN" /\ ws \in DOMAIN connectedClients
    /\ msgCount' = [msgCount EXCEPT ![ws] = CountAfter(ws)]
    /\ msgWindowAge' = [msgWindowAge EXCEPT ![ws] = IF WindowOver(ws) THEN 0 ELSE @]
    /\ last' = [op |-> "message", ws |-> ws, msg |-> msg, dropped |-> ~Passes(ws),
                 synced |-> connectedClients[ws].synced,
                 afterMalformed |-> /\ last.op = "message" /\ last.ws = ws
                                    /\ ~last.dropped /\ last.msg.type = "malformed"]
    /\ UNCHANGED <<outputBuffer, nextSeq, serverToken, sockVars, ptyProcess, ptyChildren, localSize, resizeListener,
                   dataCallbacks, exitCallbacks, resizeCallbacks, sessVars, tunVars, downVars, recv>>
    /\ declared' = [declared EXCEPT ![ws] =
                       @ \/ (Passes(ws) /\ msg.type = "resize"
                               /\ ValidResize(msg.cols, msg.rows))]
    /\ IF ~Passes(ws)
       THEN /\ out' = NoOut
            /\ ptyCalls' = <<>>
            /\ UNCHANGED <<connectedClients, tempDir, ptySize>>
       ELSE LET info == connectedClients[ws]
                clients == [connectedClients EXCEPT ![ws] = InfoAfter(info, msg)]
                calls ==
                    IF msg.type = "input" /\ msg.data.t = "string"
                    THEN writeToPTY(msg.data)
                    ELSE IF msg.type = "resize" /\ ValidResize(msg.cols, msg.rows)
                         THEN resizePTY(applyMinSize(clients, getLocalSize))
                         ELSE <<>>
            IN  /\ connectedClients' = clients
                /\ out' = [NoOut EXCEPT ![ws] = ReplyTo(info, outputBuffer, msg)]
                /\ ptyCalls' = calls
                /\ ptySize' = SizeAfter(calls, ptySize)
                /\ tempDir' = IF msg.type = "image_upload" /\ msg.data.t = "string"
                                 /\ msg.outcome \in {"stored", "write_fails"}
                              THEN TRUE ELSE tempDir

(***************************************************************************)
(* Authentication of an upgrade (verifyClient, safeEqual).  A string is a  *)
(* sequence of characters; a host is <<hostname, port>>, the port "" when  *)
(* absent; a cookie header is the sequence of its cookies after the split  *)
(* at ';' and the trim.                                                    *)
(***************************************************************************)
\* the token of this session: crypto.randomBytes(16).toString('hex'), two
\* hexadecimal digits of it
AuthToken == <<"a", "b">>

\* the UTF-8 encoding of a character; "e'" is U+00E9, two bytes
Utf8(c) == IF c = "e'" THEN <<195, 169>> ELSE IF c = "a" THEN <<97>> ELSE <<98>>

RECURSIVE BufferWrite(_, _)
\* Buffer.alloc(n) after write(str): the characters that fit whole, then zeros
BufferWrite(str, n) ==
    IF n = 0 THEN <<>>
    ELSE IF str # <<>> /\ Len(Utf8(Head(str))) <= n
         THEN Utf8(Head(str)) \o BufferWrite(Tail(str), n - Len(Utf8(Head(str))))
         ELSE [i \in 1..n |-> 0]

\* mutant: the lengths are not compared
safeEqual_NoLength(a, b) ==
    LET maxLen == Max({Len(a), Len(b), 1})
    IN  BufferWrite(a, maxLen) = BufferWrite(b, maxLen)

\* safeEqual(a, b)
safeEqual(a, b) ==
    LET maxLen == Max({Len(a), Len(b), 1})
        match == BufferWrite(a, maxLen) = BufferWrite(b, maxLen)
    IN  match /\ Len(a) = Len(b)

\* new URL(origin).host: the hostname in lower case, the port unless it is the
\* scheme's default
ToLower(name) == IF name = "H" THEN "h" ELSE name
DefaultPort(scheme) == IF scheme = "https" THEN "443" ELSE "80"
URLHost(origin) ==
    <<ToLower(origin.hostname),
      IF origin.port = DefaultPort(origin.scheme) THEN "" ELSE origin.port>>

\* cookieHeader.split(';').map(c => c.trim()).find(c => c.startsWith('auth=')):
\* the first cookie named auth, as a sequence of at most one cookie
FindAuth(cookies) ==
    LET auth == SelectSeq(cookies, LAMBDA c : c.name = "auth")
    IN  IF auth = <<>> THEN <<>> ELSE <<auth[1]>>

\* verifyClient(info, callback) with the token being token: the arguments of
\* the callback
verifyClient(req, token) ==
    IF req.origin.kind = "invalid"
    THEN [ok |-> FALSE, code |-> 403, text |-> "Invalid origin"]
    ELSE IF req.origin.kind = "url" /\ URLHost(req.origin) # req.host
    THEN [ok |-> FALSE, code |-> 403, text |-> "Origin mismatch"]
    ELSE IF FindAuth(req.cookies) # <<>> /\ safeEqual(FindAuth(req.cookies)[1].value, token)
    THEN [ok |-> TRUE, code |-> 101, text |-> ""]
    ELSE [ok |-> FALSE, code |-> 403, text |-> "Forbidden"]

\* an Origin header: absent, a URL, or a string new URL() throws on
NoOrigin == [kind |-> "none", scheme |-> "", hostname |-> "", port |-> ""]
InvalidOrigin == [kind |-> "invalid", scheme |-> "", hostname |-> "", port |-> ""]
UrlOrigin(scheme, hostname, port) ==
    [kind |-> "url", scheme |-> scheme, hostname |-> hostname, port |-> port]
Cookie(name, value) == [name |-> name, value |-> value]

\* the upgrade request of the page this session served: same origin, the
\* cookie set from the token
SessionRequest ==
    [origin |-> UrlOrigin("https", "h", ""), host |-> <<"h", "">>,
     cookies |-> <<Cookie("auth", AuthToken)>>]

(***************************************************************************)
(* Connection lifecycle (wss.on('connection'), ws.on('error'/'close')).    *)
(***************************************************************************)
Without(clients, ws) == [w \in DOMAIN clients \ {ws} |-> clients[w]]

With(clients, ws, info) ==
    [w \in DOMAIN clients \cup {ws} |-> IF w = ws THEN info ELSE clients[w]]

\* an upgrade request req arrives for a new socket ws: verifyClient, and when
\* it accepts, the 'connection' event fires for ws
Upgrade(ws, req) ==
    /\ phase \notin {"init", "port", "exited"}
    /\ serverToken # <<>>
    /\ readyState[ws] = "NONE"
    /\ UNCHANGED <<outputBuffer, nextSeq, tempDir, serverToken, ptyVars, sessVars, tunVars, downVars, page>>
    /\ ptyCalls' = <<>>
    /\ IF ~verifyClient(req, serverToken).ok
       THEN /\ out' = [NoOut EXCEPT ![ws] =
                         <<[type |-> "http", code |-> verifyClient(req, serverToken).code,
                            text |-> verifyClient(req, serverToken).text]>>]
            /\ last' = [op |-> "forbidden", ws |-> ws, req |-> req,
                         text |-> verifyClient(req, serverToken).text]
            /\ UNCHANGED <<connectedClients, rateVars, sockVars, recv, declared, page>>
       ELSE IF Cardinality(DOMAIN connectedClients) >= MAX_CONNECTIONS
       THEN /\ readyState' = [readyState EXCEPT ![ws] = "CLOSING"]
            /\ out' = [NoOut EXCEPT ![ws] = <<[type |-> "close", code |-> 1013]>>]
            /\ last' = [op |-> "connect", ws |-> ws, rejected |-> TRUE, req |-> req]
            /\ UNCHANGED <<connectedClients, rateVars, accepted, recv, declared, page>>
       ELSE /\ connectedClients' =
                With(connectedClients, ws,
                     [cols |-> DEFAULT_COLS, rows |-> DEFAULT_ROWS, synced |-> FALSE])
            /\ msgCount' = [msgCount EXCEPT ![ws] = 0]
            /\ arrivals' = [arrivals EXCEPT ![ws] = NoArrivals]
            /\ msgWindowAge' = [msgWindowAge EXCEPT ![ws] = 0]
            /\ readyState' = [readyState EXCEPT ![ws] = "OPEN"]
            /\ accepted' = [accepted EXCEPT ![ws] = TRUE]
            /\ recv' = [recv EXCEPT ![ws] = <<>>]
            /\ declared' = [declared EXCEPT ![ws] = FALSE]
            /\ out' = NoOut
            /\ last' = [op |-> "connect", ws |-> ws, rejected |-> FALSE, req |-> req]

\* mutant: the ceiling test lets one connection too many in
Connect_OneLate(ws) ==
    /\ phase \notin {"init", "port", "exited"}
    /\ serverToken # <<>>
    /\ readyState[ws] = "NONE"
    /\ UNCHANGED <<outputBuffer, nextSeq, tempDir, serverToken, ptyVars, sessVars, tunVars, downVars, page>>
    /\ ptyCalls' = <<>>
    /\ IF Cardinality(DOMAIN connectedClients) > MAX_CONNECTIONS
       THEN /\ readyState' = [readyState EXCEPT ![ws] = "CLOSING"]
            /\ out' = [NoOut EXCEPT ![ws] = <<[type |-> "close", code |-> 1013]>>]
            /\ last' = [op |-> "connect", ws |-> ws, rejected |-> TRUE]
            /\ UNCHANGED <<connectedClients, rateVars, accepted, recv, declared, page>>
       ELSE /\ connectedClients' =
                With(connectedClients, ws,
                     [cols |-> DEFAULT_COLS, rows |-> DEFAULT_ROWS, synced |-> FALSE])
            /\ msgCount' = [msgCount EXCEPT ![ws] = 0]
            /\ arrivals' = [arrivals EXCEPT ![ws] = NoArrivals]
            /\ msgWindowAge' = [msgWindowAge EXCEPT ![ws] = 0]
            /\ readyState' = [readyState EXCEPT ![ws] = "OPEN"]
            /\ accepted' = [accepted EXCEPT ![ws] = TRUE]
            /\ recv' = [recv EXCEPT ![ws] = <<>>]
            /\ declared' = [declared EXCEPT ![ws] = FALSE]
            /\ out' = NoOut
            /\ last' = [op |-> "connect", ws |-> ws, rejected |-> FALSE]

\* the session's own page connects on socket ws
Connect(ws) == Upgrade(ws, SessionRequest)

\* a rejected socket finishes closing; no listener was registered on it
RejectedGone(ws) ==
    /\ phase # "exited"
    /\ readyState[ws] = "CLOSING" /\ ~accepted[ws]
    /\ readyState' = [readyState EXCEPT ![ws] = "NONE"]
    /\ out' = NoOut /\ ptyCalls' = <<>>
    /\ last' = [op |-> "gone", ws |-> ws]
    /\ UNCHANGED <<relayVars, rateVars, accepted, ptyVars, sessVars, tunVars, downVars, recv, declared, page>>

\* the peer starts closing (or the transport fails): readyState leaves OPEN
\* before any listener of the connection runs
BeginClose(ws) ==
    /\ phase # "exited"
    /\ readyState[ws] = "OPEN" /\ accepted[ws]
    /\ readyState' = [readyState EXCEPT ![ws] = "CLOSING"]
    /\ out' = NoOut /\ ptyCalls' = <<>>
    /\ last' = [op |-> "closing", ws |-> ws]
    /\ UNCHANGED <<relayVars, rateVars, accepted, ptyVars, sessVars, tunVars, downVars, recv, declared, page>>

\* ws.on('error')
OnError(ws) ==
    /\ phase # "exited"
    /\ accepted[ws] /\ readyState[ws] \in {"OPEN", "CLOSING"}
    /\ readyState' = [readyState EXCEPT ![ws] = "CLOSING"]
    /\ connectedClients' = Without(connectedClients, ws)
    /\ out' = NoOut /\ ptyCalls' = <<>>
    /\ last' = [op |-> "error", ws |-> ws]
    /\ UNCHANGED <<outputBuffer, nextSeq, tempDir, serverToken, rateVars, accepted, ptyVars,
                   sessVars, tunVars, downVars, recv, declared, page>>

\* ws.on('close')
OnClose(ws) ==
    /\ phase # "exited"
    /\ accepted[ws] /\ readyState[ws] = "CLOSING"
    /\ LET clients == Without(connectedClients, ws)
           calls == resizePTY(applyMinSize(clients, getLocalSize))
       IN  /\ connectedClients' = clients
           /\ ptyCalls' = calls
           /\ ptySize' = SizeAfter(calls, ptySize)
    /\ readyState' = [readyState EXCEPT ![ws] = "NONE"]
    /\ accepted' = [accepted EXCEPT ![ws] = FALSE]
    /\ msgCount' = [msgCount EXCEPT ![ws] = 0]
    /\ msgWindowAge' = [msgWindowAge EXCEPT ![ws] = 0]
    /\ arrivals' = [arrivals EXCEPT ![ws] = NoArrivals]
    /\ recv' = [recv EXCEPT ![ws] = <<>>]
    /\ declared' = [declared EXCEPT ![ws] = FALSE]
    /\ out' = NoOut
    /\ last' = [op |-> "close", ws |-> ws]
    /\ UNCHANGED <<outputBuffer, nextSeq, tempDir, serverToken, ptyProcess, ptyChildren, localSize, resizeListener,
                   dataCallbacks, exitCallbacks, resizeCallbacks, sessVars, tunVars, downVars, page>>

\* time passes: every connection's window grows older
Tick ==
    /\ phase # "exited"
    /\ msgWindowAge' = [ws \in Sockets |->
                          IF accepted[ws] /\ msgWindowAge[ws] <= MSG_RATE_WINDOW_MS
                          THEN msgWindowAge[ws] + 1 ELSE msgWindowAge[ws]]
    /\ msgWindowAge' # msgWindowAge
    /\ out' = NoOut /\ ptyCalls' = <<>>
    /\ last' = [op |-> "tick"]
    /\ UNCHANGED <<relayVars, msgCount, sockVars, ptyVars, sessVars, tunVars, downVars, recv, declared, page>>

\* a step of the message handler or of the clock whose time is not observed,
\* the message not being one of the page that is followed
Untimed(A) == A /\ UNCHANGED <<arrivals, page>>

\* the message handler, its time observed: a processed message has age 0
TimedMessage(ws, msg) ==
    /\ OnMessage(ws, msg)
    /\ arrivals' = [arrivals EXCEPT ![ws][0] = IF Passes(ws) THEN @ + 1 ELSE @]
    /\ UNCHANGED page

\* the clock, observed: every processed message is one tick older, and those
\* older than the window are forgotten
TimedTick ==
    /\ Tick
    /\ arrivals' = [ws \in Sockets |->
                      [a \in 0..(MSG_RATE_WINDOW_MS - 1) |->
                          IF a = 0 THEN 0 ELSE arrivals[ws][a - 1]]]



(***************************************************************************)
(* PTY supervisor and session wiring.                                      *)
(***************************************************************************)
\* process.stdout.columns || 80, process.stdout.rows || 24 (0 stands for undefined)
StdoutOrDefault(sz) ==
    Size(IF sz.cols # 0 THEN sz.cols ELSE DEFAULT_COLS,
         IF sz.rows # 0 THEN sz.rows ELSE DEFAULT_ROWS)

\* the module state of cloudflare-tunnel.ts that stopTunnel works on
TunnelNow ==
    [proc |-> tunnelProcess, url |-> tunnelUrl, cbs |-> crashCallbacks,
     stop |-> intentionalStop, sig |-> signals]

SetTunnel(t) ==
    /\ tunnelProcess' = t.proc
    /\ tunnelUrl' = t.url
    /\ crashCallbacks' = t.cbs
    /\ intentionalStop' = t.stop
    /\ signals' = t.sig

NoUrl == "null"

\* the state of a promise that a user of the module awaits, not startSession
UserPending == "pending (user)"

\* no call of startTunnelProcess before the last one
NoEarlier == [child |-> "none", urlFound |-> FALSE, timeout |-> "none"]

\* mutant: the flag is not set before the signal is sent
stopTunnel_NoFlag(t) ==
    [proc |-> FALSE,
     url |-> IF t.proc THEN NoUrl ELSE t.url,
     cbs |-> <<>>,
     stop |-> t.stop,
     sig |-> IF t.proc THEN Append(t.sig, "SIGTERM") ELSE t.sig]

\* stopTunnel() on module state t
stopTunnel(t) ==
    [proc |-> FALSE,
     url |-> IF t.proc THEN NoUrl ELSE t.url,
     cbs |-> <<>>,
     stop |-> IF t.proc THEN TRUE ELSE t.stop,
     sig |-> IF t.proc THEN Append(t.sig, "SIGTERM") ELSE t.sig]

\* mutant: the token survives the stop
StopWebServer_KeepsToken ==
    /\ readyState' = [ws \in Sockets |->
                        IF readyState[ws] = "OPEN" THEN "CLOSING" ELSE readyState[ws]]
    /\ connectedClients' = <<>>
    /\ outputBuffer' = <<>>
    /\ nextSeq' = 1
    /\ dataCallbacks' = 0
    /\ exitCallbacks' = <<>>
    /\ resizeCallbacks' = 0
    /\ tempDir' = FALSE
    /\ UNCHANGED serverToken

\* stopWebServer(): sockets closed, table, log and counter reset, the PTY
\* callbacks cleared, the scratch directory removed
StopWebServer ==
    /\ readyState' = [ws \in Sockets |->
                        IF readyState[ws] = "OPEN" THEN "CLOSING" ELSE readyState[ws]]
    /\ connectedClients' = <<>>
    /\ outputBuffer' = <<>>
    /\ nextSeq' = 1
    /\ dataCallbacks' = 0
    /\ exitCallbacks' = <<>>
    /\ resizeCallbacks' = 0
    /\ tempDir' = FALSE
    /\ serverToken' = <<>>

\* the relay holds nothing: as at load, or as stopWebServer() leaves it
RelayIdle ==
    /\ connectedClients = <<>> /\ outputBuffer = <<>> /\ nextSeq = 1
    /\ serverToken = <<>> /\ ~tempDir
    /\ dataCallbacks = 0 /\ exitCallbacks = <<>> /\ resizeCallbacks = 0
    /\ \A ws \in Sockets : readyState[ws] # "OPEN"

\* stopWebServer() called by a user of web-server.ts while the process runs
StopCall ==
    /\ phase # "exited"
    /\ StopWebServer
    /\ out' = NoOut /\ ptyCalls' = <<>>
    /\ last' = [op |-> "stopWebServer", again |-> RelayIdle, at |-> phase]
    /\ UNCHANGED <<rateVars, accepted, ptyProcess, ptyChildren, ptySize, localSize,
                   resizeListener, sessVars, tunVars, downVars, recv, declared, page>>

\* killPTY()
KillPTY ==
    /\ ptyProcess' = FALSE
    /\ ptyChildren' = IF ptyProcess THEN ptyChildren - 1 ELSE ptyChildren
    /\ ptySize' = Size(0, 0)
    /\ resizeListener' = FALSE

\* mutant: the catch block does not stop the relay
FailStart_RelayLeft(t) ==
    /\ SetTunnel(stopTunnel(t))
    /\ teardown' = teardown \o <<"stopTunnel", "exit1">>
    /\ phase' = "exited"
    /\ exitCode' = 1
    /\ probe' = probe
    /\ UNCHANGED <<relayVars, rateVars, sockVars, ptyProcess, ptyChildren, ptySize,
                   resizeListener, dataCallbacks, exitCallbacks, resizeCallbacks,
                   cleaningUp, sigHandlers, recv, declared, page>>

\* mutant: the catch block does not stop the tunnel
FailStart_TunnelLeft(t) ==
    /\ StopWebServer
    /\ SetTunnel(t)
    /\ teardown' = teardown \o <<"stopWebServer", "exit1">>
    /\ phase' = "exited"
    /\ exitCode' = 1
    /\ probe' = probe
    /\ UNCHANGED <<rateVars, accepted, ptyProcess, ptyChildren, ptySize, resizeListener,
                   cleaningUp, sigHandlers, recv, declared, page>>

\* the catch blocks of startSession, the tunnel module being in state t:
\* stopWebServer(), stopTunnel(), process.exit(1)
FailStart(t) ==
    /\ StopWebServer
    /\ SetTunnel(stopTunnel(t))
    /\ teardown' = teardown \o <<"stopWebServer", "stopTunnel", "exit1">>
    /\ phase' = "exited"
    /\ exitCode' = 1
    /\ probe' = probe
    /\ UNCHANGED <<rateVars, accepted, ptyProcess, ptyChildren, ptySize, resizeListener,
                   cleaningUp, sigHandlers, recv, declared, page>>

\* startSession once startTunnel has resolved: spawnPTY with the terminal at
\* size sz, then onTunnelCrash and onPTYExit(cleanup)
SpawnPTY(sz) ==
    /\ phase = "tunnel"
    /\ phase' = "running"
    /\ localSize' = StdoutOrDefault(sz)
    /\ ptyProcess' = TRUE
    /\ ptyChildren' = ptyChildren + 1
    /\ ptySize' = StdoutOrDefault(sz)
    /\ resizeListener' = TRUE
    /\ exitCallbacks' = Append(exitCallbacks, "session")
    /\ crashCallbacks' = Append(crashCallbacks, "session")
    /\ UNCHANGED <<relayVars, rateVars, sockVars, dataCallbacks, resizeCallbacks,
                   exitCode, probe, recv, declared, page, downVars>>

\* the stdout 'resize' listener of pty.ts; the terminal is now sz
LocalResize(sz) ==
    /\ phase # "exited"
    /\ resizeListener
    /\ LET local == IF sz.cols # 0 /\ sz.rows # 0 THEN sz ELSE localSize
           calls == IF sz.cols # 0 /\ sz.rows # 0 /\ resizeCallbacks > 0
                    THEN resizePTY(applyMinSize(connectedClients, local))
                    ELSE <<>>
       IN  /\ localSize' = local
           /\ ptyCalls' = calls
           /\ ptySize' = SizeAfter(calls, ptySize)
    /\ out' = NoOut
    /\ last' = [op |-> "localResize", size |-> sz]
    /\ UNCHANGED <<relayVars, rateVars, sockVars, ptyProcess, ptyChildren, resizeListener,
                   dataCallbacks, exitCallbacks, resizeCallbacks, sessVars, tunVars, downVars, recv, declared, page>>

\* ptyProcess.onData: the relay's onPTYData callback handles chunk data
PTYData(data) ==
    /\ phase # "exited"
    /\ ptyProcess /\ dataCallbacks > 0
    /\ nextSeq' = nextSeq + 1
    /\ outputBuffer' = AppendToLog(outputBuffer, nextSeq, data)
    /\ out' = [ws \in Sockets |->
                 IF ws \in Reached
                 THEN <<[type |-> "output", seq |-> nextSeq, data |-> data]>>
                 ELSE <<>>]
    /\ recv' = [ws \in Sockets |->
                  IF ws \in Reached THEN Append(recv[ws], nextSeq) ELSE recv[ws]]
    /\ ptyCalls' = <<>>
    /\ last' = [op |-> "data", data |-> data, before |-> Len(outputBuffer)]
    /\ UNCHANGED <<connectedClients, tempDir, serverToken, rateVars, sockVars, ptyVars, sessVars, tunVars, downVars,
                   declared, page>>

\* mutant: the guard is set before it is tested
Cleanup_GuardFirst ==
    /\ cleaningUp' = TRUE
    /\ UNCHANGED <<relayVars, rateVars, sockVars, ptyVars, sessVars, tunVars,
                   teardown, sigHandlers, recv, declared, page>>

\* mutant: the tunnel is stopped before the relay
Cleanup_TunnelFirst ==
    IF cleaningUp
    THEN UNCHANGED <<relayVars, rateVars, sockVars, ptyVars, sessVars, tunVars,
                     downVars, recv, declared, page>>
    ELSE /\ cleaningUp' = TRUE
         /\ KillPTY
         /\ SetTunnel(stopTunnel(TunnelNow))
         /\ StopWebServer
         /\ teardown' = teardown \o <<"killPTY", "stopTunnel", "stopWebServer", "exit0">>
         /\ phase' = "exited"
         /\ exitCode' = 0
         /\ probe' = probe
         /\ UNCHANGED <<rateVars, accepted, localSize, recv, declared, page, sigHandlers,
                        urlFound, timeout, startPromise, child, crashCalls, earlier>>

\* cleanup() of session.ts: killPTY, stopWebServer, stopTunnel, process.exit(0)
Cleanup ==
    IF cleaningUp
    THEN UNCHANGED <<relayVars, rateVars, sockVars, ptyVars, sessVars, tunVars,
                     downVars, recv, declared, page>>
    ELSE /\ cleaningUp' = TRUE
         /\ KillPTY
         /\ StopWebServer
         /\ SetTunnel(stopTunnel(TunnelNow))
         /\ teardown' = teardown \o <<"killPTY", "stopWebServer", "stopTunnel", "exit0">>
         /\ phase' = "exited"
         /\ exitCode' = 0
         /\ probe' = probe
         /\ UNCHANGED <<rateVars, accepted, localSize, recv, declared, page, sigHandlers,
                        urlFound, timeout, startPromise, child, crashCalls, earlier>>

\* the calls of calls that are made: the session's callback ends the process
UpToExit(calls) ==
    IF \E i \in 1..Len(calls) : calls[i].cb = "session"
    THEN SubSeq(calls, 1, CHOOSE i \in 1..Len(calls) :
                             /\ calls[i].cb = "session"
                             /\ \A j \in 1..(i - 1) : calls[j].cb # "session")
    ELSE calls

\* mutant: each callback is called twice
ExitNotified_EachTwice(cbs, code) ==
    UpToExit([i \in 1..(2 * Len(cbs)) |-> [cb |-> cbs[(i + 1) \div 2], code |-> code]])

\* the exit callback invocations the onExit handler makes
ExitNotified(cbs, code) ==
    UpToExit([i \in 1..Len(cbs) |-> [cb |-> cbs[i], code |-> code]])

\* the relay's exit callback, once per invocation in calls: the messages a
\* reached socket is sent
ExitBroadcast(calls) ==
    LET relay == SelectSeq(calls, LAMBDA c : c.cb = "relay")
    IN  [i \in 1..Len(relay) |-> [type |-> "exit", code |-> relay[i].code]]

\* ptyProcess.onExit: the exit callbacks run in registration order, the relay's
\* broadcast first, then the session's cleanup; with no callback of the
\* session left, the handler ends by clearing the handle
PTYExit(code) ==
    /\ phase = "running"
    /\ ptyProcess
    /\ out' = [ws \in Sockets |->
                 IF ws \in Reached THEN ExitBroadcast(ExitNotified(exitCallbacks, code))
                 ELSE <<>>]
    /\ ptyCalls' = <<>>
    /\ last' = [op |-> "ptyExit", code |-> code, cbs |-> exitCallbacks,
                 notified |-> ExitNotified(exitCallbacks, code)]
    /\ IF \E i \in 1..Len(exitCallbacks) : exitCallbacks[i] = "session"
       THEN Cleanup
       ELSE /\ ptyProcess' = FALSE
            /\ ptyChildren' = ptyChildren - 1
            /\ ptySize' = Size(0, 0)
            /\ UNCHANGED <<relayVars, rateVars, sockVars, localSize, resizeListener,
                           dataCallbacks, exitCallbacks, resizeCallbacks, sessVars,
                           tunVars, downVars, recv, declared, page>>

\* spawnPTY(options) called by a user of pty.ts while a PTY is live, the
\* terminal being at size sz: the handle is overwritten, the earlier
\* subprocess keeps running
SpawnCall(sz) ==
    /\ phase = "running"
    /\ ptyProcess
    /\ ptyChildren < MaxSpawns
    /\ localSize' = StdoutOrDefault(sz)
    /\ ptyProcess' = TRUE
    /\ ptyChildren' = ptyChildren + 1
    /\ ptySize' = StdoutOrDefault(sz)
    /\ resizeListener' = TRUE
    /\ out' = NoOut /\ ptyCalls' = <<>>
    /\ last' = [op |-> "spawnPTY", live |-> ptyProcess, size |-> sz]
    /\ UNCHANGED <<relayVars, rateVars, sockVars, dataCallbacks, exitCallbacks,
                   resizeCallbacks, sessVars, tunVars, downVars, recv, declared, page>>

\* resizePTY(cols, rows) called by a user of pty.ts
ResizeCall(sz) ==
    /\ phase # "exited"
    /\ ptyCalls' = resizePTY(<<sz>>)
    /\ ptySize' = SizeAfter(resizePTY(<<sz>>), ptySize)
    /\ out' = NoOut
    /\ last' = [op |-> "resizePTY", live |-> ptyProcess, size |-> sz]
    /\ UNCHANGED <<relayVars, rateVars, sockVars, ptyProcess, ptyChildren, localSize,
                   resizeListener, dataCallbacks, exitCallbacks, resizeCallbacks,
                   sessVars, tunVars, downVars, recv, declared, page>>

\* writeToPTY(data) called by a user of pty.ts
WriteCall(data) ==
    /\ phase # "exited"
    /\ ptyCalls' = writeToPTY(data)
    /\ out' = NoOut
    /\ last' = [op |-> "writeToPTY", live |-> ptyProcess, data |-> data]
    /\ UNCHANGED <<relayVars, rateVars, sockVars, ptyVars, sessVars, tunVars, downVars,
                   recv, declared, page>>

\* SIGINT or SIGTERM: cleanup
Signal ==
    /\ phase # "exited"
    /\ sigHandlers
    /\ out' = NoOut
    /\ ptyCalls' = IF ptyProcess THEN <<[op |-> "kill"]>> ELSE <<>>
    /\ last' = [op |-> "signal"]
    /\ Cleanup

(***************************************************************************)
(* Tunnel supervisor (cloudflare-tunnel.ts) as startSession drives it.  A   *)
(* callback and the continuation of `await startTunnel` that it releases    *)
(* run before any other event, so they are one step.                       *)
(***************************************************************************)
\* the URLs cloudflared may print; a chunk is the URL it contains, or "none"
Urls == {"u1", "u2"}
TunnelChunks == Urls \cup {"none"}
Streams == {"stderr", "stdout"}
\* the subprocess's exit code; -1 stands for null (a signal ended it)
CloseCodes == {0, 1, -1}

\* output.match(/https:\/\/[a-z0-9-]+\.trycloudflare\.com/)
UrlMatch(chunk) == chunk \in Urls

\* mutant: a later match is taken as well
UrlTaken_Always(chunk, found) == UrlMatch(chunk)

\* urlMatch && !urlFound
UrlTaken(chunk, found) == UrlMatch(chunk) /\ ~found

\* mutant: the timer is left running
clearTimeout_Forgotten(t) == t

\* clearTimeout(timeout)
clearTimeout(t) == IF t = "armed" THEN "cleared" ELSE t

\* resolve(url) or reject(err) on promise p: a settled promise stays as it is
Settle(p, st, url) ==
    IF p.state \in {"pending", UserPending} THEN [state |-> st, url |-> url] ELSE p

\* mutant: the close handler does not reject
CloseSettles_NoReject(found, p) == p

\* the start promise after the close handler
CloseSettles(found, p) == IF ~found THEN Settle(p, "rejected", NoUrl) ELSE p

\* mutant: the callbacks are run for the exit and again for the close
CrashNotified_ExitAndClose(found, stop, cbs, code) ==
    IF found /\ ~stop
    THEN [i \in 1..Len(cbs) |-> [cb |-> cbs[i], code |-> code]]
         \o [i \in 1..Len(cbs) |-> [cb |-> cbs[i], code |-> code]]
    ELSE <<>>

\* the crash callback invocations the close handler makes
CrashNotified(found, stop, cbs, code) ==
    IF found /\ ~stop
    THEN [i \in 1..Len(cbs) |-> [cb |-> cbs[i], code |-> code]]
    ELSE <<>>

\* a step of startSession that leaves every module as it is
StartupStep(op, ok, next) ==
    /\ out' = NoOut /\ ptyCalls' = <<>>
    /\ last' = [op |-> op, ok |-> ok]
    /\ UNCHANGED <<urlFound, crashCalls, earlier, localSize, child, timeout, startPromise>>
    /\ IF ok
       THEN /\ phase' = next
            /\ UNCHANGED <<rateVars, sockVars, ptyProcess, ptyChildren, ptySize,
                           resizeListener, exitCode, tunnelProcess, tunnelUrl,
                           crashCallbacks, intentionalStop, signals, cleaningUp,
                           teardown, recv, declared, page, outputBuffer, nextSeq,
                           connectedClients, tempDir>>
       ELSE FailStart(TunnelNow)

\* verifyServerStarted before its first attempt
NoProbe == [attempts |-> 0, inflight |-> 0, retries |-> 0]

\* checkServer(): one more attempt, one more request in flight
checkServer(p) == [p EXCEPT !.attempts = @ + 1, !.inflight = @ + 1]

\* findAvailablePort(): a port was found (ok) or the 100 attempts are used up
SelectPort(ok) ==
    /\ phase = "init"
    /\ StartupStep("selectPort", ok, "port")
    /\ ok => UNCHANGED <<serverToken, dataCallbacks, exitCallbacks, resizeCallbacks,
                         sigHandlers, probe>>

\* startWebServer(port, token): the token is stored, the relay's PTY callbacks
\* are registered and the server listens (ok) or emits 'error'
StartWebServer(token, ok) ==
    /\ phase = "port"
    /\ StartupStep("startWebServer", ok, "listening")
    /\ ok => /\ serverToken' = token
             /\ resizeCallbacks' = resizeCallbacks + 1
             /\ dataCallbacks' = dataCallbacks + 1
             /\ exitCallbacks' = Append(exitCallbacks, "relay")
             /\ probe' = checkServer(NoProbe)
             /\ UNCHANGED sigHandlers

\* mutant: the signal handlers are not installed
VerifyServerStarted_NoHandlers(ok) ==
    /\ phase = "listening"
    /\ StartupStep("verifyServerStarted", ok, "serving")
    /\ ok => UNCHANGED <<sigHandlers, serverToken, dataCallbacks, exitCallbacks,
                         resizeCallbacks, probe>>

\* verifyServerStarted(port): the health endpoint answered (ok) or the 10
\* attempts are used up; then cleanup is defined and process.once installs it
\* for SIGINT and SIGTERM
VerifyServerStarted(ok) ==
    /\ phase = "listening"
    /\ StartupStep("verifyServerStarted", ok, "serving")
    /\ ok => /\ sigHandlers' = TRUE
             /\ UNCHANGED <<serverToken, dataCallbacks, exitCallbacks, resizeCallbacks,
                            probe>>

\* the attempt's request gets a response: resolve(); the requests still in
\* flight find the promise settled
ProbeAnswer ==
    /\ probe.inflight > 0
    /\ VerifyServerStarted(TRUE)

\* an attempt's request fails: req.on('error'), or the 1000 ms of
\* req.setTimeout run out (timedOut) and req.destroy() makes the request emit
\* 'error' as well (echo) or not; with the attempts used up the promise is
\* rejected, else each of the callbacks that ran schedules checkServer
ProbeFail(timedOut, echo) ==
    /\ phase = "listening"
    /\ probe.inflight > 0
    /\ IF probe.attempts >= maxAttempts
       THEN VerifyServerStarted(FALSE)
       ELSE /\ probe' = [probe EXCEPT !.inflight = @ - 1,
                                      !.retries = @ + (IF timedOut /\ echo THEN 2 ELSE 1)]
            /\ out' = NoOut /\ ptyCalls' = <<>>
            /\ last' = [op |-> "probeFailed", timedOut |-> timedOut, echo |-> echo]
            /\ UNCHANGED <<relayVars, rateVars, sockVars, ptyVars, phase, exitCode,
                           tunVars, downVars, recv, declared, page>>

\* the 200 ms timer of a retry fires: checkServer()
ProbeRetry ==
    /\ phase = "listening"
    /\ probe.retries > 0
    /\ probe' = checkServer([probe EXCEPT !.retries = @ - 1])
    /\ out' = NoOut /\ ptyCalls' = <<>>
    /\ last' = [op |-> "checkServer", attempts |-> probe.attempts + 1]
    /\ UNCHANGED <<relayVars, rateVars, sockVars, ptyVars, phase, exitCode,
                   tunVars, downVars, recv, declared, page>>

\* the start-up of startSession with every step succeeding
Startup ==
    \/ SelectPort(TRUE)
    \/ StartWebServer(AuthToken, TRUE)
    \/ VerifyServerStarted(TRUE)

\* mutant: the tunnel does not wait for the health probe
AfterHealth_Listening == phase \in {"listening", "serving"}

\* startSession is past `await verifyServerStarted(port)` and the handler
\* installation, at `await startTunnel(port)`
AfterHealth == phase = "serving"

\* startTunnel(port) at session.ts:153 through startTunnelProcess; installed
\* tells whether ensureCloudflared() found or installed the binary
StartTunnel(installed) ==
    /\ AfterHealth
    /\ out' = NoOut /\ ptyCalls' = <<>>
    /\ last' = [op |-> "startTunnel", installed |-> installed]
    /\ UNCHANGED <<urlFound, crashCalls, earlier, localSize>>
    /\ IF installed
       THEN /\ phase' = "tunnel"
            /\ tunnelProcess' = TRUE
            /\ child' = "running"
            /\ timeout' = "armed"
            /\ startPromise' = [state |-> "pending", url |-> NoUrl]
            /\ UNCHANGED <<relayVars, rateVars, sockVars, ptyProcess, ptyChildren, ptySize,
                           resizeListener, dataCallbacks, exitCallbacks,
                           resizeCallbacks, exitCode, probe, tunnelUrl, crashCallbacks,
                           intentionalStop, signals, downVars, recv, declared, page>>
       ELSE /\ startPromise' = [state |-> "rejected", url |-> NoUrl]
            /\ FailStart(TunnelNow)
            /\ UNCHANGED <<child, timeout>>

\* tunnelProcess.stderr.on('data') and tunnelProcess.stdout.on('data'); on the
\* first match startTunnel resolves and startSession goes on: the terminal is at
\* size sz and spawnPTY succeeds (ok) or throws
TunnelData(stream, chunk, sz, ok) ==
    /\ phase # "exited"
    /\ child = "running"
    /\ out' = NoOut /\ ptyCalls' = <<>>
    /\ last' = [op |-> "tunnelData", stream |-> stream, chunk |-> chunk,
                 found |-> urlFound, ok |-> ok]
    /\ UNCHANGED <<child, crashCalls, earlier>>
    /\ IF UrlTaken(chunk, urlFound)
       THEN /\ urlFound' = TRUE
            /\ timeout' = clearTimeout(timeout)
            /\ startPromise' = Settle(startPromise, "resolved", chunk)
            /\ IF startPromise.state = "pending"
               THEN IF ok
                    THEN /\ SpawnPTY(sz)
                         /\ tunnelUrl' = chunk
                         /\ UNCHANGED <<tunnelProcess, intentionalStop, signals>>
                    ELSE /\ localSize' = StdoutOrDefault(sz)
                         /\ FailStart([TunnelNow EXCEPT !.url = chunk])
               ELSE /\ tunnelUrl' = chunk
                    /\ UNCHANGED <<relayVars, rateVars, sockVars, ptyVars, sessVars,
                                   tunnelProcess, crashCallbacks, intentionalStop,
                                   signals, downVars, recv, declared, page>>
       ELSE UNCHANGED <<relayVars, rateVars, sockVars, ptyVars, sessVars,
                        tunnelProcess, tunnelUrl, crashCallbacks, intentionalStop,
                        urlFound, timeout, startPromise, signals, downVars,
                        recv, declared, page>>

\* mutant: the timer fires without rejecting the promise
TunnelTimeout_NoReject ==
    /\ phase # "exited"
    /\ timeout = "armed"
    /\ timeout' = "fired"
    /\ out' = NoOut /\ ptyCalls' = <<>>
    /\ last' = [op |-> "tunnelTimeout", found |-> urlFound]
    /\ UNCHANGED <<relayVars, rateVars, sockVars, ptyVars, sessVars, tunnelProcess,
                   tunnelUrl, crashCallbacks, intentionalStop, urlFound, startPromise,
                   child, crashCalls, earlier, signals, downVars, recv, declared, page>>

\* the 30 s timer of startTunnelProcess fires
TunnelTimeout ==
    /\ phase # "exited"
    /\ timeout = "armed"
    /\ timeout' = "fired"
    /\ out' = NoOut /\ ptyCalls' = <<>>
    /\ last' = [op |-> "tunnelTimeout", found |-> urlFound]
    /\ UNCHANGED <<urlFound, child, crashCalls, earlier, localSize>>
    /\ IF ~urlFound
       THEN /\ startPromise' = Settle(startPromise, "rejected", NoUrl)
            /\ IF startPromise.state = "pending"
               THEN FailStart(stopTunnel(TunnelNow))
               ELSE /\ SetTunnel(stopTunnel(TunnelNow))
                    /\ UNCHANGED <<relayVars, rateVars, sockVars, ptyProcess, ptyChildren, ptySize,
                                   resizeListener, dataCallbacks, exitCallbacks,
                                   resizeCallbacks, sessVars, downVars, recv, declared, page>>
       ELSE UNCHANGED <<relayVars, rateVars, sockVars, ptyProcess, ptyChildren, ptySize,
                        resizeListener, dataCallbacks, exitCallbacks, resizeCallbacks,
                        sessVars, tunnelProcess, tunnelUrl, crashCallbacks,
                        intentionalStop, startPromise, signals, downVars,
                        recv, declared, page>>

\* tunnelProcess.on('error')
TunnelError ==
    /\ phase # "exited"
    /\ child = "running"
    /\ timeout' = clearTimeout(timeout)
    /\ startPromise' = Settle(startPromise, "rejected", NoUrl)
    /\ out' = NoOut /\ ptyCalls' = <<>>
    /\ last' = [op |-> "tunnelError", found |-> urlFound]
    /\ UNCHANGED <<urlFound, child, crashCalls, earlier, localSize>>
    /\ IF startPromise.state = "pending"
       THEN FailStart(TunnelNow)
       ELSE UNCHANGED <<relayVars, rateVars, sockVars, ptyProcess, ptyChildren, ptySize,
                        resizeListener, dataCallbacks, exitCallbacks, resizeCallbacks,
                        sessVars, tunnelProcess, tunnelUrl, crashCallbacks,
                        intentionalStop, signals, downVars, recv, declared, page>>

\* mutant: a close after the URL ends the session like a failed start
TunnelClose_CrashFatal(code) ==
    /\ phase # "exited"
    /\ child = "running"
    /\ child' = "closed"
    /\ timeout' = IF ~urlFound THEN clearTimeout(timeout) ELSE timeout
    /\ startPromise' = CloseSettles(urlFound, startPromise)
    /\ crashCalls' = crashCalls
                       \o CrashNotified(urlFound, intentionalStop, crashCallbacks, code)
    /\ earlier' = earlier
    /\ out' = NoOut /\ ptyCalls' = <<>>
    /\ last' = [op |-> "tunnelClose", code |-> code, found |-> urlFound,
                 stop |-> intentionalStop, cbs |-> crashCallbacks,
                 settled |-> startPromise.state]
    /\ UNCHANGED <<urlFound, localSize>>
    /\ FailStart([TunnelNow EXCEPT !.proc = FALSE, !.url = NoUrl, !.stop = FALSE])

\* tunnelProcess.on('close'): the subprocess has ended with exit code `code`
TunnelClose(code) ==
    /\ phase # "exited"
    /\ child = "running"
    /\ child' = "closed"
    /\ timeout' = IF ~urlFound THEN clearTimeout(timeout) ELSE timeout
    /\ startPromise' = CloseSettles(urlFound, startPromise)
    /\ crashCalls' = crashCalls
                       \o CrashNotified(urlFound, intentionalStop, crashCallbacks, code)
    /\ earlier' = earlier
    /\ out' = NoOut /\ ptyCalls' = <<>>
    /\ last' = [op |-> "tunnelClose", code |-> code, found |-> urlFound,
                 stop |-> intentionalStop, cbs |-> crashCallbacks,
                 settled |-> startPromise.state]
    /\ UNCHANGED <<urlFound, localSize>>
    /\ LET t == [TunnelNow EXCEPT !.proc = FALSE, !.url = NoUrl, !.stop = FALSE]
       IN  IF startPromise.state = "pending" /\ startPromise'.state = "rejected"
           THEN FailStart(t)
           ELSE /\ SetTunnel(t)
                /\ UNCHANGED <<relayVars, rateVars, sockVars, ptyProcess, ptyChildren, ptySize,
                               resizeListener, dataCallbacks, exitCallbacks,
                               resizeCallbacks, sessVars, downVars, recv, declared, page>>

\* stopTunnel() called by a user of cloudflare-tunnel.ts
StopTunnelCall ==
    /\ phase = "running"
    /\ SetTunnel(stopTunnel(TunnelNow))
    /\ out' = NoOut /\ ptyCalls' = <<>>
    /\ last' = [op |-> "stopTunnel", proc |-> tunnelProcess]
    /\ UNCHANGED <<relayVars, rateVars, sockVars, ptyVars, sessVars, urlFound, timeout,
                   startPromise, child, crashCalls, earlier, downVars, recv, declared, page>>

\* onTunnelCrash(callback) called by a user of cloudflare-tunnel.ts
OnTunnelCrashCall ==
    /\ phase = "running"
    /\ Len(crashCallbacks) < 1
    /\ crashCallbacks' = Append(crashCallbacks, "user")
    /\ out' = NoOut /\ ptyCalls' = <<>>
    /\ last' = [op |-> "onTunnelCrash"]
    /\ UNCHANGED <<relayVars, rateVars, sockVars, ptyVars, sessVars, tunnelProcess,
                   tunnelUrl, intentionalStop, signals, urlFound, timeout,
                   startPromise, child, crashCalls, earlier, downVars, recv, declared, page>>

\* startTunnel(port) called by a user of cloudflare-tunnel.ts after the
\* tunnel was stopped or has ended: a new subprocess, a new closure; the
\* closure of the call before it lives on with its listeners
StartTunnelCall ==
    /\ phase = "running"
    /\ ~tunnelProcess /\ child # "none"
    /\ earlier = NoEarlier
    /\ earlier' = [child |-> child, urlFound |-> urlFound, timeout |-> timeout]
    /\ tunnelProcess' = TRUE
    /\ child' = "running"
    /\ urlFound' = FALSE
    /\ timeout' = "armed"
    /\ startPromise' = [state |-> UserPending, url |-> NoUrl]
    /\ out' = NoOut /\ ptyCalls' = <<>>
    /\ last' = [op |-> "startTunnel", installed |-> TRUE]
    /\ UNCHANGED <<relayVars, rateVars, sockVars, ptyVars, sessVars, tunnelUrl,
                   crashCallbacks, intentionalStop, signals, crashCalls, downVars,
                   recv, declared, page>>

\* tunnelProcess.on('close') of the closure of the earlier call: its
\* subprocess has ended with exit code `code`
EarlierClose(code) ==
    /\ phase # "exited"
    /\ earlier.child = "running"
    /\ earlier' = [earlier EXCEPT !.child = "closed",
                                  !.timeout = IF ~earlier.urlFound
                                              THEN clearTimeout(@) ELSE @]
    /\ crashCalls' = crashCalls
                       \o CrashNotified(earlier.urlFound, intentionalStop,
                                        crashCallbacks, code)
    /\ SetTunnel([TunnelNow EXCEPT !.proc = FALSE, !.url = NoUrl, !.stop = FALSE])
    /\ out' = NoOut /\ ptyCalls' = <<>>
    /\ last' = [op |-> "earlierClose", code |-> code, live |-> child = "running",
                 proc |-> tunnelProcess, url |-> tunnelUrl, stop |-> intentionalStop,
                 cbs |-> crashCallbacks]
    /\ UNCHANGED <<relayVars, rateVars, sockVars, ptyVars, sessVars, urlFound, timeout,
                   startPromise, child, downVars, recv, declared, page>>

(***************************************************************************)
(* The page (public/js/terminal.js) behind socket 1.  Its messages to the  *)
(* relay and the relay's messages to it are in flight for a while: the     *)
(* relay's are the reply to the sync and the outputs recv[1] records, read *)
(* in the order they were sent.                                            *)
(***************************************************************************)
\* the page as loaded: lastSeq = 0, no socket.  sync is the lastSeq of the
\* sync message in flight (-1: none), resize tells that the resize message is
\* in flight; read counts the outputs of recv[1] the page has handled, reply is
\* the sync reply in flight, sent after replyAt outputs; seen are the sequence
\* numbers written to the terminal by outputs and history-delta replies on
\* this socket; opens counts the sockets opened, up to 2
NoPage ==
    [state |-> "idle", lastSeq |-> 0, sync |-> -1, resize |-> FALSE, read |-> 0,
     reply |-> <<>>, replyAt |-> 0, seen |-> <<>>, opens |-> 0]

\* the sequence numbers of the chunks a sync reply carries
Covered(m) == [i \in 1..Len(m.data) |-> m.lastSeq - Len(m.data) + i]

\* ws.onopen: the sync message with the page's lastSeq, then the resize message
PageOpen ==
    /\ phase # "exited"
    /\ page.state = "idle"
    /\ accepted[1] /\ readyState[1] = "OPEN"
    /\ page' = [page EXCEPT !.state = "open", !.sync = page.lastSeq, !.resize = TRUE,
                            !.read = 0, !.reply = <<>>, !.replyAt = 0, !.seen = <<>>,
                            !.opens = IF @ < 2 THEN @ + 1 ELSE @]
    /\ UNCHANGED nodeVars

\* the relay handles the page's sync message
PageSync ==
    /\ page.state = "open"
    /\ page.sync >= 0
    /\ OnMessage(1, [type |-> "sync", lastSeq |-> JNum(2 * page.sync)])
    /\ page' = [page EXCEPT !.sync = -1, !.reply = out'[1], !.replyAt = Len(recv[1])]
    /\ UNCHANGED arrivals

\* the relay handles the page's resize message, sent after the sync
PageResize ==
    /\ page.state = "open"
    /\ page.sync = -1 /\ page.resize
    /\ OnMessage(1, [type |-> "resize", cols |-> JNum(2 * 60), rows |-> JNum(2 * 20)])
    /\ page' = [page EXCEPT !.resize = FALSE]
    /\ UNCHANGED arrivals

\* ws.onmessage for the next message in flight: an output sets lastSeq to its
\* seq, a history or history-delta reply sets it to the reply's lastSeq; both
\* write their chunks to the terminal
PageMessage ==
    /\ phase # "exited"
    /\ page.state = "open"
    /\ IF page.reply # <<>> /\ page.read = page.replyAt
       THEN page' = [page EXCEPT !.reply = <<>>,
                                 !.lastSeq = page.reply[1].lastSeq,
                                 !.seen = IF page.reply[1].type = "history-delta"
                                          THEN @ \o Covered(page.reply[1]) ELSE @]
       ELSE /\ page.read < Len(recv[1])
            /\ page' = [page EXCEPT !.read = @ + 1,
                                    !.lastSeq = recv[1][page.read + 1],
                                    !.seen = Append(@, recv[1][page.read + 1])]
    /\ UNCHANGED nodeVars

\* the page's socket goes down: what was in flight is lost
PageClose ==
    /\ phase # "exited"
    /\ page.state = "open"
    /\ page' = [page EXCEPT !.state = "closing", !.sync = -1, !.resize = FALSE,
                            !.reply = <<>>]
    /\ UNCHANGED nodeVars

\* ws.onclose: ws = null, and connect() after 500 ms
PageReconnect ==
    /\ phase # "exited"
    /\ page.state = "closing"
    /\ readyState[1] = "NONE"
    /\ page' = [page EXCEPT !.state = "idle"]
    /\ UNCHANGED nodeVars

(***************************************************************************)
(* Inputs of the environment.                                              *)
(***************************************************************************)
ExitCodes == {0, 1}
\* a new connection takes the lowest free socket identity
LowestFree(ws) == \A w \in Sockets : w < ws => readyState[w] # "NONE"

(***************************************************************************)
(* startSession has not begun: the modules hold their initial values.      *)
(***************************************************************************)
Init ==
    /\ outputBuffer = <<>>
    /\ nextSeq = 1
    /\ connectedClients = <<>>
    /\ msgCount = [ws \in Sockets |-> 0]
    /\ msgWindowAge = [ws \in Sockets |-> 0]
    /\ arrivals = [ws \in Sockets |-> NoArrivals]
    /\ tempDir = FALSE
    /\ serverToken = <<>>
    /\ readyState = [ws \in Sockets |-> "NONE"]
    /\ accepted = [ws \in Sockets |-> FALSE]
    /\ ptyProcess = FALSE
    /\ ptyChildren = 0
    /\ ptySize = Size(0, 0)
    /\ localSize = Size(DEFAULT_COLS, DEFAULT_ROWS)
    /\ resizeListener = FALSE
    /\ dataCallbacks = 0
    /\ exitCallbacks = <<>>
    /\ resizeCallbacks = 0
    /\ phase = "init"
    /\ exitCode = -1
    /\ probe = NoProbe
    /\ out = NoOut
    /\ ptyCalls = <<>>
    /\ recv = [ws \in Sockets |-> <<>>]
    /\ declared = [ws \in Sockets |-> FALSE]
    /\ last = [op |-> "init"]
    /\ cleaningUp = FALSE
    /\ sigHandlers = FALSE
    /\ tunnelProcess = FALSE
    /\ tunnelUrl = NoUrl
    /\ crashCallbacks = <<>>
    /\ intentionalStop = FALSE
    /\ urlFound = FALSE
    /\ timeout = "none"
    /\ startPromise = [state |-> "none", url |-> NoUrl]
    /\ child = "none"
    /\ crashCalls = <<>>
    /\ earlier = NoEarlier
    /\ page = NoPage
    /\ signals = <<>>
    /\ teardown = <<>>

(***************************************************************************)
(* Spec: the output log and the sync handshake.  One client connects and   *)
(* reconnects; it sends every kind of message; the sizes stay as they are  *)
(* at spawn.                                                               *)
(***************************************************************************)
LastSeqInputs == {JNum(2 * n) : n \in 0..MaxChunks} \cup {JNum(3), JNumStr(2), JUndef}
Messages ==
    [type : {"sync"}, lastSeq : LastSeqInputs]
    \cup [type : {"input"}, data : {JText}]
    \cup [type : {"resize"}, cols : {JNum(2 * 120)}, rows : {JUndef}]
    \cup [type : {"image_upload"}, data : {JText}, outcome : {"too_large"}]
    \cup [type : {"malformed"}]

Next ==
    \/ Connect(1)
    \/ BeginClose(1)
    \/ OnError(1)
    \/ OnClose(1)
    \/ \E msg \in Messages : msgCount[1] <= MSG_RATE_LIMIT /\ Untimed(OnMessage(1, msg))
    \/ Untimed(Tick)
    \/ Startup
    \/ StartTunnel(TRUE)
    \/ TunnelData("stderr", "u1", Size(100, 40), TRUE)
    \/ \E data \in Chunks : nextSeq <= MaxChunks /\ PTYData(data)
    \/ \E code \in ExitCodes : PTYExit(code)
    \/ Signal

Spec == Init /\ [][Next]_vars

(***************************************************************************)
(* SpecFanout: the broadcast of output chunks to several connections that  *)
(* come and go.                                                            *)
(***************************************************************************)
FanoutSockets == 1..2

NextFanout ==
    \/ \E ws \in FanoutSockets : LowestFree(ws) /\ Connect(ws)
    \/ \E ws \in FanoutSockets : BeginClose(ws)
    \/ \E ws \in FanoutSockets : OnError(ws)
    \/ \E ws \in FanoutSockets : OnClose(ws)
    \/ Startup
    \/ StartTunnel(TRUE)
    \/ TunnelData("stderr", "u1", Size(100, 40), TRUE)
    \/ \E data \in {<<"x">>, <<"ESC[2J", "x">>} : nextSeq <= MaxChunks /\ PTYData(data)
    \/ \E code \in ExitCodes : PTYExit(code)
    \/ Signal

SpecFanout == Init /\ [][NextFanout]_vars

(***************************************************************************)
(* SpecSize: size arbitration.  Clients declare sizes, connect and         *)
(* disconnect, the local terminal is resized; the PTY emits one chunk.     *)
(***************************************************************************)
LocalSizes == {Size(100, 40), Size(60, 20)}
\* 0 stands for a dimension that process.stdout does not report
StdoutSizes == LocalSizes \cup {Size(0, 0), Size(100, 0)}
Resize(jc, jr) == [type |-> "resize", cols |-> jc, rows |-> jr]
SizeMessages ==
    {Resize(JNum(2 * 80), JNum(2 * 24)), Resize(JNum(2 * 120), JNum(2 * 50)),
     Resize(JNum(2 * 120), JNumStr(2 * 24)),
     Resize(JNum(0), JNum(2 * 24)), Resize(JNum(2 * 501), JNum(2 * 24)),
     Resize(JNum(2 * 80), JNum(2 * 201)), Resize(JNum(161), JNum(2 * 24)),
     Resize(JNum(2 * 80), JUndef)}
    \cup [type : {"input"}, data : {JText}]
SizeSockets == 1..2

NextSize ==
    \/ \E ws \in SizeSockets : LowestFree(ws) /\ Connect(ws)
    \/ \E ws \in SizeSockets : BeginClose(ws)
    \/ \E ws \in SizeSockets : OnError(ws)
    \/ \E ws \in SizeSockets : OnClose(ws)
    \/ \E ws \in SizeSockets, msg \in SizeMessages :
          msgCount[ws] < MSG_RATE_LIMIT /\ Untimed(OnMessage(ws, msg))
    \/ Startup
    \/ StartTunnel(TRUE)
    \/ \E sz \in StdoutSizes : TunnelData("stderr", "u1", sz, TRUE)
    \/ \E sz \in StdoutSizes : LocalResize(sz)
    \/ \E code \in ExitCodes : PTYExit(code)
    \/ Signal

SpecSize == Init /\ [][NextSize]_vars


(***************************************************************************)
(* SpecAdmit: connection admission.  One connection more than the ceiling  *)
(* allows tries to connect while the PTY emits output and exits.           *)
(***************************************************************************)
AdmitMessages == [type : {"sync"}, lastSeq : {JUndef}]
\* the PTY emits at most this many chunks in a behaviour of SpecAdmit
AdmitChunks == 1

NextAdmit ==
    \/ \E ws \in Sockets : LowestFree(ws) /\ Connect(ws)
    \/ \E ws \in Sockets : RejectedGone(ws)
    \/ \E ws \in Sockets : BeginClose(ws)
    \/ OnError(1)
    \/ \E ws \in Sockets : OnClose(ws)
    \/ \E ws \in Sockets, msg \in AdmitMessages :
          msgCount[ws] < 1 /\ Untimed(OnMessage(ws, msg))
    \/ Startup
    \/ StartTunnel(TRUE)
    \/ TunnelData("stderr", "u1", Size(100, 40), TRUE)
    \/ nextSeq <= AdmitChunks /\ PTYData(<<"x">>)
    \/ \E code \in ExitCodes : PTYExit(code)
    \/ Signal

SpecAdmit == Init /\ [][NextAdmit]_vars

(***************************************************************************)
(* SpecSession: startup and shutdown.  The tunnel comes up, times out,     *)
(* fails or crashes; the PTY spawns or fails to, emits output and exits;   *)
(* signals arrive at any time; one client connects and leaves.             *)
(***************************************************************************)
NextSession ==
    \/ \E ok \in BOOLEAN : SelectPort(ok)
    \/ \E ok \in BOOLEAN : StartWebServer(AuthToken, ok)
    \/ \E ok \in BOOLEAN : VerifyServerStarted(ok)
    \/ \E installed \in BOOLEAN : StartTunnel(installed)
    \/ \E stream \in Streams, chunk \in TunnelChunks, ok \in BOOLEAN :
          TunnelData(stream, chunk, Size(100, 40), ok)
    \/ TunnelTimeout
    \/ TunnelError
    \/ \E code \in CloseCodes : TunnelClose(code)
    \/ Connect(1)
    \/ BeginClose(1)
    \/ OnClose(1)
    \/ nextSeq <= MaxChunks /\ PTYData(<<"x">>)
    \/ \E code \in ExitCodes : PTYExit(code)
    \/ Signal

SpecSession == Init /\ [][NextSession]_vars

(***************************************************************************)
(* SpecPTY: the PTY supervisor under its users.  Besides the session and   *)
(* the relay, a user of pty.ts calls spawnPTY, resizePTY and writeToPTY    *)
(* directly, before and after the session's spawn.                         *)
(***************************************************************************)
\* the sizes passed to resizePTY; 0 is a dimension that is not positive
CallSizes == {Size(60, 20), Size(0, 24), Size(0, 0)}

NextPTY ==
    \/ Startup
    \/ StartTunnel(TRUE)
    \/ \E sz \in LocalSizes : TunnelData("stderr", "u1", sz, TRUE)
    \/ \E sz \in LocalSizes : SpawnCall(sz)
    \/ \E sz \in CallSizes : ResizeCall(sz)
    \/ WriteCall(JText)
    \/ Connect(1)
    \/ BeginClose(1)
    \/ OnClose(1)
    \/ nextSeq <= AdmitChunks /\ PTYData(<<"x">>)
    \/ \E code \in ExitCodes : PTYExit(code)
    \/ Signal

SpecPTY == Init /\ [][NextPTY]_vars

(***************************************************************************)
(* SpecRelay: the relay is stopped by a user of web-server.ts at any time, *)
(* once or again, while a client uploads an image, the PTY emits output    *)
(* and the session goes on.                                                *)
(***************************************************************************)
RelayMessages ==
    [type : {"image_upload"}, data : {JText}, outcome : {"stored"}]
    \cup [type : {"sync"}, lastSeq : {JNum(0)}]

NextRelay ==
    \/ Startup
    \/ StopCall
    \/ Connect(1)
    \/ BeginClose(1)
    \/ OnClose(1)
    \/ \E msg \in RelayMessages : msgCount[1] < MSG_RATE_LIMIT /\ Untimed(OnMessage(1, msg))
    \/ StartTunnel(TRUE)
    \/ TunnelData("stderr", "u1", Size(100, 40), TRUE)
    \/ nextSeq <= AdmitChunks /\ PTYData(<<"x">>)
    \/ \E code \in ExitCodes : PTYExit(code)
    \/ Signal

SpecRelay == Init /\ [][NextRelay]_vars

(***************************************************************************)
(* SpecStartup: startSession under fair scheduling.  The health probe is   *)
(* followed attempt by attempt.  Timers fire, requests and the installer   *)
(* settle and the listeners report; the tunnel subprocess owes nothing.    *)
(***************************************************************************)
PortSelected == \E ok \in BOOLEAN : SelectPort(ok)
ServerStarted == \E ok \in BOOLEAN : StartWebServer(AuthToken, ok)
ProbeSettled == ProbeAnswer \/ \E timedOut, echo \in BOOLEAN : ProbeFail(timedOut, echo)
TunnelStarted == \E installed \in BOOLEAN : StartTunnel(installed)

NextStartup ==
    \/ PortSelected
    \/ ServerStarted
    \/ ProbeSettled
    \/ ProbeRetry
    \/ TunnelStarted
    \/ \E stream \in Streams, chunk \in TunnelChunks, ok \in BOOLEAN :
          TunnelData(stream, chunk, Size(100, 40), ok)
    \/ TunnelTimeout
    \/ TunnelError
    \/ \E code \in CloseCodes : TunnelClose(code)
    \/ Connect(1)
    \/ BeginClose(1)
    \/ OnClose(1)
    \/ \E code \in ExitCodes : PTYExit(code)
    \/ Signal

SpecStartup ==
    /\ Init /\ [][NextStartup]_vars
    /\ WF_vars(PortSelected)
    /\ WF_vars(ServerStarted)
    /\ WF_vars(ProbeSettled)
    /\ WF_vars(ProbeRetry)
    /\ WF_vars(TunnelStarted)
    /\ WF_vars(TunnelTimeout)

(***************************************************************************)
(* SpecTunnel: the tunnel supervisor under its users.  After the session   *)
(* is up, a user of cloudflare-tunnel.ts stops the tunnel, starts it       *)
(* again and registers a crash callback; the subprocesses end when they    *)
(* end.                                                                    *)
(***************************************************************************)
NextTunnel ==
    \/ Startup
    \/ StartTunnel(TRUE)
    \/ \E chunk \in TunnelChunks : TunnelData("stderr", chunk, Size(100, 40), TRUE)
    \/ TunnelTimeout
    \/ \E code \in CloseCodes : TunnelClose(code)
    \/ \E code \in CloseCodes : EarlierClose(code)
    \/ StopTunnelCall
    \/ StartTunnelCall
    \/ OnTunnelCrashCall
    \/ \E code \in ExitCodes : PTYExit(code)
    \/ Signal

SpecTunnel == Init /\ [][NextTunnel]_vars

(***************************************************************************)
(* SpecPage: the relay and one page.  The page connects, syncs, reads what *)
(* the relay sends, loses its socket and reconnects with the lastSeq it    *)
(* has reached, while the PTY emits chunks.                                *)
(***************************************************************************)
PageChunks == {<<"x">>, <<"ESC[2J">>}

NextPage ==
    \/ Startup
    \/ StartTunnel(TRUE)
    \/ TunnelData("stderr", "u1", Size(100, 40), TRUE)
    \/ page.state = "idle" /\ Connect(1)
    \/ PageOpen
    \/ PageSync
    \/ PageResize
    \/ PageMessage
    \/ PageClose
    \/ page.state = "closing" /\ BeginClose(1)
    \/ page.state = "closing" /\ OnClose(1)
    \/ PageReconnect
    \/ \E data \in PageChunks : nextSeq <= MaxChunks /\ PTYData(data)
    \/ \E code \in ExitCodes : PTYExit(code)
    \/ Signal

SpecPage == Init /\ [][NextPage]_vars

(***************************************************************************)
(* SpecRate: the rate ceiling over time.  One client sends inputs while    *)
(* the clock ticks; the arrival time of every processed message is         *)
(* observed.                                                               *)
(***************************************************************************)
NextRate ==
    \/ Startup
    \/ Connect(1)
    \/ BeginClose(1)
    \/ OnClose(1)
    \/ msgCount[1] <= MSG_RATE_LIMIT /\ TimedMessage(1, [type |-> "input", data |-> JText])
    \/ TimedTick
    \/ StartTunnel(TRUE)
    \/ TunnelData("stderr", "u1", Size(100, 40), TRUE)
    \/ \E code \in ExitCodes : PTYExit(code)
    \/ Signal

SpecRate == Init /\ [][NextRate]_vars

(***************************************************************************)
(* SpecAuth: upgrade requests of every kind reach the relay: from the      *)
(* session's page, from other origins, with and without the token.         *)
(***************************************************************************)
Origins ==
    {NoOrigin, InvalidOrigin,
     UrlOrigin("https", "h", ""), UrlOrigin("https", "h", "443"),
     UrlOrigin("https", "H", ""), UrlOrigin("https", "x", ""),
     UrlOrigin("http", "h", "443")}
HostHeaders == {<<"h", "">>, <<"h", "443">>}
CookieHeaders ==
    {<<>>,
     <<Cookie("auth", <<"a", "b">>)>>,
     <<Cookie("auth", <<"a">>)>>,
     <<Cookie("auth", <<"a", "e'">>)>>,
     <<Cookie("auth", <<"a", "b", "e'">>)>>,
     <<Cookie("auth", <<>>)>>,
     <<Cookie("sid", <<"a", "b">>)>>,
     <<Cookie("sid", <<"a">>), Cookie("auth", <<"a", "b">>)>>,
     <<Cookie("auth", <<"b", "a">>), Cookie("auth", <<"a", "b">>)>>}
Requests == [origin : Origins, host : HostHeaders, cookies : CookieHeaders]
AuthSockets == 1..2

NextAuth ==
    \/ Startup
    \/ \E ws \in AuthSockets, req \in Requests : LowestFree(ws) /\ Upgrade(ws, req)
    \/ \E ws \in AuthSockets : BeginClose(ws)
    \/ \E ws \in AuthSockets : OnClose(ws)
    \/ StartTunnel(TRUE)
    \/ TunnelData("stderr", "u1", Size(100, 40), TRUE)
    \/ nextSeq <= AdmitChunks /\ PTYData(<<"x">>)
    \/ \E code \in ExitCodes : PTYExit(code)
    \/ Signal

SpecAuth == Init /\ [][NextAuth]_vars

(***************************************************************************)
(* Properties of the output log.                                           *)
(***************************************************************************)
IsClear(tok) == tok \in {"ESC[2J", "ESC[3J", "ESCc"}
HasClear(data) == \E i \in 1..Len(data) : IsClear(data[i])

\* C1: the sequence numbers of the retained records are all >= 1, strictly
\* increasing and consecutive, after any sequence of chunks, clears and trims.
C1_SeqGapless ==
    \A i \in 1..Len(outputBuffer) :
        /\ outputBuffer[i].seq >= 1
        /\ i > 1 => outputBuffer[i].seq = outputBuffer[i - 1].seq + 1

\* a trim has just happened and left several records, the oldest one dropped
C1_Witness ==
    /\ last.op = "data" /\ ~HasClear(last.data)
    /\ last.before = MAX_BUFFER_SIZE
    /\ Len(outputBuffer) >= 2
    /\ outputBuffer[1].seq > 1

\* C2 as stated: the log never exceeds MAX_BUFFER_SIZE, and every append that
\* makes it exceed the mark leaves exactly the BUFFER_TRIM_SIZE newest records.
C2_Original ==
    [][\A data \in Chunks : PTYData(data) =>
          /\ Len(outputBuffer') <= MAX_BUFFER_SIZE
          /\ Len(outputBuffer) + 1 > MAX_BUFFER_SIZE =>
                /\ Len(outputBuffer') = BUFFER_TRIM_SIZE
                /\ \A i \in 1..BUFFER_TRIM_SIZE :
                      outputBuffer'[i] =
                          Append(outputBuffer, [seq |-> nextSeq, data |-> data])
                              [Len(outputBuffer) + 1 - BUFFER_TRIM_SIZE + i]]_vars

\* C2 amended: the log never exceeds MAX_BUFFER_SIZE; an append of a chunk without
\* a clear-screen sequence that makes it exceed the mark leaves exactly the
\* BUFFER_TRIM_SIZE newest records; a chunk with a clear-screen sequence that
\* arrives at a full log leaves at most one record, as every such chunk does.
C2_Amended ==
    [][\A data \in Chunks : PTYData(data) =>
          /\ Len(outputBuffer') <= MAX_BUFFER_SIZE
          /\ (Len(outputBuffer) + 1 > MAX_BUFFER_SIZE /\ ~HasClear(data)) =>
                /\ Len(outputBuffer') = BUFFER_TRIM_SIZE
                /\ \A i \in 1..BUFFER_TRIM_SIZE :
                      outputBuffer'[i] =
                          Append(outputBuffer, [seq |-> nextSeq, data |-> data])
                              [Len(outputBuffer) + 1 - BUFFER_TRIM_SIZE + i]
          /\ (Len(outputBuffer) + 1 > MAX_BUFFER_SIZE /\ HasClear(data)) =>
                Len(outputBuffer') <= 1]_vars

\* the log was full, a chunk without a clear arrived and the log was trimmed
C2_Witness ==
    /\ last.op = "data" /\ ~HasClear(last.data)
    /\ last.before = MAX_BUFFER_SIZE
    /\ Len(outputBuffer) = BUFFER_TRIM_SIZE
    /\ outputBuffer[Len(outputBuffer)].seq = nextSeq - 1

\* C3: after a chunk with clear-screen sequences the log holds only the content
\* that follows the chunk's last clear-screen sequence: one record with the
\* chunk's sequence number if that content is non-empty, no record otherwise.
C3_ClearTruncates ==
    (last.op = "data" /\ HasClear(last.data)) =>
        \E k \in 1..Len(last.data) :
            /\ IsClear(last.data[k])
            /\ \A i \in (k + 1)..Len(last.data) : ~IsClear(last.data[i])
            /\ IF k < Len(last.data)
               THEN /\ Len(outputBuffer) = 1
                    /\ outputBuffer[1].seq = nextSeq - 1
                    /\ Len(outputBuffer[1].data) = Len(last.data) - k
                    /\ \A i \in 1..(Len(last.data) - k) :
                          outputBuffer[1].data[i] = last.data[k + i]
               ELSE outputBuffer = <<>>

\* a chunk with two clear sequences followed by text arrived at a log of several
\* records, and only the text is retained
C3_Witness ==
    /\ last.op = "data"
    /\ last.data = <<"ESC[2J", "ESC[2J", "x">>
    /\ last.before >= 2
    /\ outputBuffer = <<[seq |-> nextSeq - 1, data |-> <<"x">>]>>


(***************************************************************************)
(* Properties of the sync handshake.                                       *)
(***************************************************************************)
\* the last step handled a sync message
SyncHandled == last.op = "message" /\ last.msg.type = "sync"
\* ... that passed the rate limit on a connection that had not synced yet
FirstSync == SyncHandled /\ ~last.dropped /\ ~last.synced
Oldest == outputBuffer[1].seq
Newest == outputBuffer[Len(outputBuffer)].seq
HistoryTypes == {"history", "history-delta"}

\* C4: with a non-empty log, the first sync of a connection whose lastSeq is older
\* than the oldest retained seq (0 and non-numeric included) is answered with one
\* history message carrying the whole log in order and lastSeq = the newest seq.
C4_OldSyncFullHistory ==
    (/\ FirstSync
     /\ Len(outputBuffer) > 0
     /\ \/ last.msg.lastSeq.t # "number"
        \/ last.msg.lastSeq.h < 2 * Oldest)
    => /\ Len(out[last.ws]) = 1
       /\ out[last.ws][1].type = "history"
       /\ out[last.ws][1].lastSeq = Newest
       /\ Len(out[last.ws][1].data) = Len(outputBuffer)
       /\ \A i \in 1..Len(outputBuffer) :
             out[last.ws][1].data[i] = outputBuffer[i].data

\* the client's lastSeq = 1 is behind a trimmed or cleared log and gets it all
C4_Witness ==
    /\ FirstSync
    /\ last.msg.lastSeq = JNum(2)
    /\ Len(outputBuffer) >= 2 /\ Oldest >= 2
    /\ Len(out[last.ws]) = 1 /\ out[last.ws][1].type = "history"

\* C5: the first sync of a connection with lastSeq >= the oldest retained seq is
\* answered with one history-delta carrying exactly the records with seq > lastSeq,
\* in log order, and lastSeq = the newest of them; with no such record, no reply.
C5_DeltaExact ==
    (/\ FirstSync
     /\ Len(outputBuffer) > 0
     /\ last.msg.lastSeq.t = "number"
     /\ last.msg.lastSeq.h >= 2 * Oldest)
    => LET newer == {i \in 1..Len(outputBuffer) :
                        2 * outputBuffer[i].seq > last.msg.lastSeq.h}
           skip == Len(outputBuffer) - Cardinality(newer)
       IN  IF newer = {}
           THEN out[last.ws] = <<>>
           ELSE /\ newer = (skip + 1)..Len(outputBuffer)
                /\ Len(out[last.ws]) = 1
                /\ out[last.ws][1].type = "history-delta"
                /\ out[last.ws][1].lastSeq = Newest
                /\ Len(out[last.ws][1].data) = Cardinality(newer)
                /\ \A k \in 1..Cardinality(newer) :
                      out[last.ws][1].data[k] = outputBuffer[skip + k].data

\* a delta that resends some of the log and not all of it
C5_Witness ==
    /\ FirstSync
    /\ Len(outputBuffer) >= 2
    /\ last.msg.lastSeq.t = "number"
    /\ last.msg.lastSeq.h >= 2 * Oldest /\ last.msg.lastSeq.h < 2 * Newest
    /\ Len(out[last.ws]) = 1 /\ out[last.ws][1].type = "history-delta"
    /\ Len(out[last.ws][1].data) < Len(outputBuffer)

\* C6: a sync whose lastSeq equals the newest seq in the log, and a sync received
\* while the log is empty, yield neither a history nor a history-delta message.
C6_NothingToResend ==
    (/\ SyncHandled
     /\ \/ Len(outputBuffer) = 0
        \/ /\ last.msg.lastSeq.t = "number"
           /\ last.msg.lastSeq.h = 2 * Newest)
    => \A i \in 1..Len(out[last.ws]) : out[last.ws][i].type \notin HistoryTypes

\* an up-to-date client's first sync on a log of several records: no reply
C6_Witness ==
    /\ FirstSync
    /\ Len(outputBuffer) >= 2
    /\ last.msg.lastSeq = JNum(2 * Newest)
    /\ out[last.ws] = <<>>

\* C7: once a connection has had a sync processed, every later sync on it gets no
\* reply and changes nothing of the relay (log, client table, sockets, PTY,
\* session), whatever lastSeq it carries; only the rate counter counts it.
C7_LaterSyncIgnored ==
    [][\A ws \in Sockets, msg \in Messages :
          (/\ msg.type = "sync"
           /\ OnMessage(ws, msg)
           /\ connectedClients[ws].synced)
          => /\ out'[ws] = <<>>
             /\ ptyCalls' = <<>>
             /\ UNCHANGED <<relayVars, sockVars, ptyVars, sessVars>>]_vars

\* a second sync that the first-sync rule would have answered with the history
C7_Witness ==
    /\ SyncHandled /\ ~last.dropped /\ last.synced
    /\ Len(outputBuffer) >= 1
    /\ last.msg.lastSeq = JUndef
    /\ out[last.ws] = <<>>

(***************************************************************************)
(* Properties of the fan-out (SpecFanout).                                 *)
(***************************************************************************)
\* C8: every chunk goes as one output{seq, data} message to exactly the connections
\* that are in the client table and OPEN; on each connection the output messages
\* carry strictly increasing seqs, and two connections that both receive two
\* chunks receive them in the same order.
C8_FanoutOrder ==
    /\ last.op = "data" =>
          \A ws \in Sockets :
              IF ws \in DOMAIN connectedClients /\ readyState[ws] = "OPEN"
              THEN out[ws] = <<[type |-> "output", seq |-> nextSeq - 1,
                                data |-> last.data]>>
              ELSE out[ws] = <<>>
    /\ \A ws \in Sockets : \A i, j \in 1..Len(recv[ws]) :
          i < j => recv[ws][i] < recv[ws][j]
    /\ \A w1, w2 \in Sockets :
          \A i1, j1 \in 1..Len(recv[w1]), i2, j2 \in 1..Len(recv[w2]) :
              (recv[w1][i1] = recv[w2][i2] /\ recv[w1][j1] = recv[w2][j2])
              => (i1 < j1 <=> i2 < j2)

\* a chunk reaches connection 1 and not connection 2, which is in the table but
\* closing; both had received two chunks
C8_Witness ==
    /\ last.op = "data"
    /\ out[1] # <<>> /\ out[2] = <<>>
    /\ 2 \in DOMAIN connectedClients /\ readyState[2] = "CLOSING"
    /\ Len(recv[1]) >= 3 /\ Len(recv[2]) >= 2
    /\ recv[2][1] = recv[1][1] /\ recv[2][2] = recv[1][2]


(***************************************************************************)
(* Properties of size arbitration (SpecSize).                              *)
(***************************************************************************)
\* m is the least element of S
IsLeast(m, S) == m \in S /\ \A k \in S : m <= k
\* the sizes the last step applied to the PTY
Applied == {ptyCalls[i].size : i \in {k \in 1..Len(ptyCalls) : ptyCalls[k].op = "resize"}}
\* the last step was one that runs size arbitration
ArbitrationRan ==
    \/ last.op = "close"
    \/ last.op = "localResize" /\ last.size.cols # 0 /\ last.size.rows # 0
    \/ /\ last.op = "message" /\ ~last.dropped /\ last.msg.type = "resize"
       /\ declared[last.ws] /\ connectedClients[last.ws].cols = last.msg.cols.h \div 2
       /\ connectedClients[last.ws].rows = last.msg.rows.h \div 2
       /\ last.msg.cols.h % 2 = 0 /\ last.msg.rows.h % 2 = 0
       /\ last.msg.cols.h > 0 /\ last.msg.rows.h > 0
       /\ last.msg.cols.h <= 2 * 500 /\ last.msg.rows.h <= 2 * 200
Connected == DOMAIN connectedClients
DeclaredClients == {ws \in Connected : declared[ws]}

\* C9 as stated: every size arbitration applies to the live PTY is the
\* coordinate-wise minimum of the local size and the sizes that the connected
\* clients declared through resize messages.
C9_Original ==
    \A sz \in Applied :
        /\ IsLeast(sz.cols, {localSize.cols}
                            \cup {connectedClients[ws].cols : ws \in DeclaredClients})
        /\ IsLeast(sz.rows, {localSize.rows}
                            \cup {connectedClients[ws].rows : ws \in DeclaredClients})

\* C9 amended: whenever arbitration runs with a live PTY it applies exactly one
\* size, the coordinate-wise minimum of the local size and the negotiated size of
\* every connected client: the last size the client declared through an accepted
\* resize message, or the default (80,24) while it has declared none.  With no
\* client connected that is the local size.  With local (100,40) and clients at
\* (80,24) and (120,50) the PTY is at (80,24); when a close leaves only the
\* (120,50) client it is at (100,40).
C9_Amended ==
    /\ \A sz \in Applied :
          /\ IsLeast(sz.cols, {localSize.cols}
                              \cup {connectedClients[ws].cols : ws \in Connected})
          /\ IsLeast(sz.rows, {localSize.rows}
                              \cup {connectedClients[ws].rows : ws \in Connected})
          /\ Connected = {} => sz = localSize
          /\ ptySize = sz
    /\ (ArbitrationRan /\ ptyProcess) => Cardinality(Applied) = 1 /\ Len(ptyCalls) = 1
    /\ (/\ ArbitrationRan /\ ptyProcess
        /\ localSize = Size(100, 40)
        /\ {<<connectedClients[ws].cols, connectedClients[ws].rows>> : ws \in Connected}
               = {<<80, 24>>, <<120, 50>>})
       => ptySize = Size(80, 24)
    /\ (/\ last.op = "close" /\ ptyProcess
        /\ localSize = Size(100, 40)
        /\ {<<connectedClients[ws].cols, connectedClients[ws].rows>> : ws \in Connected}
               = {<<120, 50>>})
       => ptySize = Size(100, 40)

\* local (100,40), both clients declared, (80,24) and (120,50): the PTY is set to
\* (80,24)
C9_Witness ==
    /\ ArbitrationRan /\ ptyProcess
    /\ last.op = "message"
    /\ localSize = Size(100, 40)
    /\ Connected = {1, 2} /\ DeclaredClients = {1, 2}
    /\ {<<connectedClients[ws].cols, connectedClients[ws].rows>> : ws \in Connected}
           = {<<80, 24>>, <<120, 50>>}
    /\ ptyCalls = <<[op |-> "resize", size |-> Size(80, 24)]>>
    /\ ptySize = Size(80, 24)

\* C10 as stated: while a PTY is live, after a client has declared a size, has
\* connected, has disconnected (close or error) or the local terminal was resized,
\* the PTY's size is the arbitration result for the local size and the client table.
C10_Original ==
    (/\ ptyProcess
     /\ \/ ArbitrationRan
        \/ last.op = "connect" /\ ~last.rejected
        \/ last.op = "error")
    => <<ptySize>> = applyMinSize(connectedClients, localSize)

\* C11: no degenerate size reaches the PTY.  Every connection's negotiated size
\* is within 1..MAX_COLS by 1..MAX_ROWS, the local size is positive, every resize
\* issued to the PTY has both dimensions positive, and so has a live PTY's size.
C11_NoDegenerateSize ==
    /\ \A ws \in Connected :
          /\ connectedClients[ws].cols \in 1..MAX_COLS
          /\ connectedClients[ws].rows \in 1..MAX_ROWS
    /\ localSize.cols > 0 /\ localSize.rows > 0
    /\ \A sz \in Applied : sz.cols > 0 /\ sz.rows > 0
    /\ ptyProcess => ptySize.cols > 0 /\ ptySize.rows > 0

\* a resize message with cols = 0 was processed with a live PTY: the client keeps
\* the size it had declared and nothing is applied
C11_Witness ==
    /\ last.op = "message" /\ ~last.dropped
    /\ last.msg = Resize(JNum(0), JNum(2 * 24))
    /\ ptyProcess
    /\ declared[last.ws]
    /\ connectedClients[last.ws].cols = 120
    /\ ptyCalls = <<>>


(***************************************************************************)
(* Properties of the rate and connection ceilings.                         *)
(***************************************************************************)
\* the position of the next message of ws in its rate window
IndexInWindow(ws) ==
    IF msgWindowAge[ws] > MSG_RATE_WINDOW_MS THEN 1 ELSE msgCount[ws] + 1

\* C12: of the messages a connection sends inside one rate window the first
\* MSG_RATE_LIMIT are processed (an input reaches the live PTY, a first sync marks
\* the connection synced, an image upload is answered) and message number
\* MSG_RATE_LIMIT + 1 is dropped silently: no reply, no call on the PTY, no change
\* to the log, the client table, the sockets or the PTY; the connection stays open.
C12_RateCeiling ==
    [][\A ws \in Sockets, msg \in Messages :
          OnMessage(ws, msg) =>
             IF IndexInWindow(ws) <= MSG_RATE_LIMIT
             THEN /\ (msg.type = "input" /\ ptyProcess)
                        => ptyCalls' = <<[op |-> "write", data |-> msg.data]>>
                  /\ msg.type = "sync" => connectedClients'[ws].synced
                  /\ msg.type = "image_upload"
                        => /\ Len(out'[ws]) = 1
                           /\ out'[ws][1].type = "image_uploaded"
             ELSE /\ out' = NoOut
                  /\ ptyCalls' = <<>>
                  /\ UNCHANGED <<relayVars, sockVars, ptyVars>>
                  /\ readyState'[ws] = "OPEN"]_vars

\* message number MSG_RATE_LIMIT + 1 of a window is an input for the live PTY,
\* and it is not written
C12_Witness ==
    /\ last.op = "message" /\ last.dropped
    /\ last.msg.type = "input"
    /\ msgCount[last.ws] = MSG_RATE_LIMIT + 1
    /\ msgWindowAge[last.ws] <= MSG_RATE_WINDOW_MS
    /\ ptyProcess
    /\ ptyCalls = <<>>
    /\ readyState[last.ws] = "OPEN" /\ last.ws \in Connected

\* the socket was turned away by the connection handler and is closing
Rejected(ws) == readyState[ws] = "CLOSING" /\ ~accepted[ws]
RelayTypes == {"output", "history", "history-delta", "exit"}

\* C13: the client table never holds more than MAX_CONNECTIONS sessions.  A
\* connection that arrives while it holds MAX_CONNECTIONS is closed at once with
\* status 1013 and is not added; it never receives an output, history or exit
\* message.
C13_ConnectionCeiling ==
    /\ [](/\ Cardinality(Connected) <= MAX_CONNECTIONS
          /\ \A ws \in Sockets :
                Rejected(ws) =>
                   /\ ws \notin Connected
                   /\ recv[ws] = <<>>
                   /\ \A i \in 1..Len(out[ws]) : out[ws][i].type \notin RelayTypes)
    /\ [][\A ws \in Sockets :
            (Connect(ws) /\ Cardinality(Connected) >= MAX_CONNECTIONS)
            => /\ out'[ws] = <<[type |-> "close", code |-> 1013]>>
               /\ readyState'[ws] = "CLOSING" /\ ~accepted'[ws]
               /\ connectedClients' = connectedClients]_vars

\* a chunk is broadcast to a full table while a rejected socket is still closing:
\* the rejected socket gets nothing
C13_Witness ==
    /\ last.op = "data"
    /\ Cardinality(Reached) = MAX_CONNECTIONS
    /\ \E ws \in Sockets : Rejected(ws) /\ out[ws] = <<>>
    /\ \A ws \in Reached : Len(out[ws]) = 1


(***************************************************************************)
(* Properties of the tunnel supervisor (SpecSession).                      *)
(***************************************************************************)
\* stopTunnel has not run: neither a signal was sent nor a shutdown step executed
NeverStopped == signals = <<>> /\ teardown = <<>>

\* C14: when the subprocess ends after its URL was established and stopTunnel was
\* not called, each crash callback registered at that moment is invoked exactly
\* once, with the subprocess's exit code; no callback is invoked twice.
C14_CrashNotifiedOnce ==
    /\ (last.op = "tunnelClose" /\ last.found /\ NeverStopped)
       => crashCalls = [i \in 1..Len(last.cbs) |->
                           [cb |-> last.cbs[i], code |-> last.code]]
    /\ \A i, j \in 1..Len(crashCalls) : crashCalls[i].cb = crashCalls[j].cb => i = j
    /\ crashCalls # <<>> => child = "closed"

\* the established tunnel died with code 1 under a running session: the session's
\* callback was told once and the session goes on
C14_Witness ==
    /\ last.op = "tunnelClose" /\ last.found /\ last.code = 1
    /\ last.cbs = <<"session">>
    /\ crashCalls = <<[cb |-> "session", code |-> 1]>>
    /\ phase = "running" /\ ptyProcess
    /\ ~tunnelProcess /\ tunnelUrl = NoUrl

C16_EarlyExitRejects ==
    (last.op = "tunnelClose" /\ ~last.found)
    => /\ startPromise.state = "rejected"
       /\ crashCalls = <<>>

\* the subprocess ended with code 1 while startTunnel was pending: the promise is
\* rejected and the session leaves with exit code 1
C16_Witness ==
    /\ last.op = "tunnelClose" /\ ~last.found /\ last.code = 1
    /\ last.settled = "pending"
    /\ startPromise.state = "rejected"
    /\ crashCalls = <<>>
    /\ exitCode = 1

\* C17: the URL is set at most once.  The first chunk that matches, on either
\* stream, resolves startTunnel with its URL and fixes the stored URL (which only
\* a stop or the subprocess's end clears); a later match changes neither the URL
\* nor the promise.
C17_UrlSetOnce ==
    /\ [][\A stream \in Streams, chunk \in Urls, ok \in BOOLEAN :
             TunnelData(stream, chunk, Size(100, 40), ok) =>
                IF ~urlFound
                THEN /\ urlFound'
                     /\ startPromise' = [state |-> "resolved", url |-> chunk]
                     /\ tunnelUrl' = IF phase' = "exited" THEN NoUrl ELSE chunk
                ELSE UNCHANGED <<urlFound, tunnelUrl, startPromise>>]_vars
    /\ [][startPromise.state \in {"resolved", "rejected"}
             => startPromise' = startPromise]_vars
    /\ [](tunnelUrl \in {NoUrl, startPromise.url})

\* after u1 was taken from stderr, a chunk on stdout matches u2: the URL stays u1
C17_Witness ==
    /\ last.op = "tunnelData" /\ last.found
    /\ last.stream = "stdout" /\ last.chunk = "u2"
    /\ tunnelUrl = "u1"
    /\ startPromise = [state |-> "resolved", url |-> "u1"]

\* C18: when the startup timer fires with no URL matched, the promise is rejected
\* and the subprocess is sent the termination signal; once a URL is matched the
\* timer is cancelled, so it never fires, rejects or kills afterwards.
C18_StartupTimeout ==
    /\ (last.op = "tunnelTimeout" /\ ~last.found)
       => /\ startPromise.state = "rejected"
          /\ signals = <<"SIGTERM">>
          /\ ~tunnelProcess
    /\ urlFound => timeout = "cleared"
    /\ startPromise.state = "resolved" => timeout = "cleared"
    /\ last.op = "tunnelTimeout" => ~last.found

\* the timer fired before any match: startup failed, the process leaves with 1
C18_Witness ==
    /\ last.op = "tunnelTimeout" /\ ~last.found
    /\ timeout = "fired"
    /\ startPromise.state = "rejected"
    /\ signals = <<"SIGTERM">>
    /\ exitCode = 1 /\ phase = "exited"

(***************************************************************************)
(* Properties of shutdown (SpecSession).                                   *)
(***************************************************************************)
CleanupSteps == {"killPTY", "stopWebServer", "stopTunnel", "exit0"}
Count(step) == Cardinality({i \in 1..Len(teardown) : teardown[i] = step})

\* C19: however many teardown triggers fire (signals, the PTY-exit callback), each
\* step of cleanup is executed at most once, and exactly once as soon as one
\* trigger has fired.
C19_CleanupOnce ==
    /\ \A step \in CleanupSteps : Count(step) <= 1
    /\ (last.op \in {"signal", "ptyExit"} \/ cleaningUp)
       => \A step \in CleanupSteps : Count(step) = 1

\* a signal arrived while PTY and tunnel were live and a client connected
C19_Witness ==
    /\ last.op = "signal"
    /\ ptyCalls = <<[op |-> "kill"]>>
    /\ readyState[1] = "CLOSING"
    /\ cleaningUp
    /\ \A step \in CleanupSteps : Count(step) = 1

\* C20: cleanup kills the PTY, then stops the relay, then stops the tunnel, then
\* ends the process with exit code 0; no step is skipped.
C20_CleanupOrder ==
    cleaningUp =>
        /\ teardown = <<"killPTY", "stopWebServer", "stopTunnel", "exit0">>
        /\ ~ptyProcess /\ ~resizeListener
        /\ Connected = {} /\ outputBuffer = <<>> /\ nextSeq = 1
        /\ ~tunnelProcess /\ crashCallbacks = <<>>
        /\ phase = "exited" /\ exitCode = 0

\* the PTY ended with code 1 after output, with the tunnel live: cleanup ran
C20_Witness ==
    /\ last.op = "ptyExit" /\ last.code = 1
    /\ signals = <<"SIGTERM">>
    /\ teardown = <<"killPTY", "stopWebServer", "stopTunnel", "exit0">>
    /\ exitCode = 0

(***************************************************************************)
(* Failures of the start-up.                                               *)
(***************************************************************************)
\* the relay is stopped: no table entry, no open socket, no token, no log,
\* no PTY callback of the relay left
RelayStopped ==
    /\ connectedClients = <<>>
    /\ \A ws \in Sockets : readyState[ws] # "OPEN"
    /\ serverToken = <<>>
    /\ outputBuffer = <<>> /\ nextSeq = 1
    /\ dataCallbacks = 0 /\ exitCallbacks = <<>> /\ resizeCallbacks = 0

\* the position of step in the shutdown steps executed so far, 0 if absent
StepAt(step) ==
    IF \E i \in 1..Len(teardown) : teardown[i] = step
    THEN CHOOSE i \in 1..Len(teardown) : teardown[i] = step
    ELSE 0

\* C21: when the tunnel fails to start (the start promise is rejected: timeout,
\* close before a URL, or spawn error) the relay is stopped before the process
\* exits, the exit code is 1, and no PTY is or was spawned.
C21_TunnelStartFailure ==
    startPromise.state = "rejected" =>
        /\ phase = "exited" /\ exitCode = 1
        /\ StepAt("stopWebServer") > 0
        /\ StepAt("stopWebServer") < StepAt("exit1")
        /\ RelayStopped
        /\ ~ptyProcess /\ ptyChildren = 0 /\ StepAt("killPTY") = 0

\* a spawn error of cloudflared failed the start while a client was connected
C21_Witness ==
    /\ last.op = "tunnelError"
    /\ startPromise.state = "rejected"
    /\ exitCode = 1
    /\ readyState[1] = "CLOSING"

\* the step handled the first URL and spawnPTY threw
SpawnFailed ==
    /\ last.op = "tunnelData"
    /\ UrlMatch(last.chunk) /\ ~last.found /\ ~last.ok

\* C22: when spawnPTY throws, the relay and the tunnel are stopped (the
\* subprocess is sent SIGTERM and the module forgets it) before the process
\* exits, and the exit code is 1.
C22_SpawnFailure ==
    SpawnFailed =>
        /\ phase = "exited" /\ exitCode = 1
        /\ teardown = <<"stopWebServer", "stopTunnel", "exit1">>
        /\ RelayStopped
        /\ ~tunnelProcess /\ tunnelUrl = NoUrl /\ crashCallbacks = <<>>
        /\ signals = <<"SIGTERM">>
        /\ ~ptyProcess /\ ptyChildren = 0

\* spawnPTY threw after the URL arrived on stdout, a client being connected
C22_Witness ==
    /\ SpawnFailed
    /\ last.stream = "stdout"
    /\ startPromise.state = "resolved"
    /\ readyState[1] = "CLOSING"
    /\ signals = <<"SIGTERM">>

(***************************************************************************)
(* Order of the start-up.                                                  *)
(***************************************************************************)
\* the successive positions of startSession
StartupOrder ==
    {<<"init", "port">>, <<"port", "listening">>, <<"listening", "serving">>,
     <<"serving", "tunnel">>, <<"tunnel", "running">>}

\* this step starts the relay's listener, launches cloudflared, spawns a PTY
RelayStarts == serverToken = <<>> /\ serverToken' # <<>>
TunnelStarts == child = "none" /\ child' # "none"
PTYSpawns == ptyChildren' > ptyChildren
FailedStep(l) == l.op \in {"selectPort", "startWebServer", "verifyServerStarted"} /\ ~l.ok

\* C23: the start-up steps are strictly ordered and each gates the next: the
\* relay starts only in the step after a port was selected, the tunnel only
\* once the health endpoint answered, the PTY only in the step in which the
\* tunnel reported its URL; a failed step ends the process, and nothing
\* happens after the process ended.
C23_StartupOrder ==
    [][/\ phase' # phase => (<<phase, phase'>> \in StartupOrder \/ phase' = "exited")
       /\ RelayStarts => (phase = "port" /\ last.op = "selectPort" /\ last.ok)
       /\ TunnelStarts => (phase = "serving" /\ serverToken # <<>>)
       /\ PTYSpawns => /\ phase = "tunnel" /\ child = "running"
                       /\ startPromise.state = "pending"
                       /\ startPromise'.state = "resolved"
                       /\ tunnelUrl' \in Urls /\ tunnelUrl' = startPromise'.url
       /\ FailedStep(last') => (phase' = "exited" /\ exitCode' = 1)
       /\ phase # "exited"]_vars

\* every step succeeded: the PTY is live behind a listening relay and a tunnel
\* with its URL
C23_Witness ==
    /\ phase = "running" /\ ptyProcess /\ ptyChildren = 1
    /\ last.op = "tunnelData" /\ last.ok
    /\ serverToken = AuthToken /\ tunnelUrl = "u2" /\ sigHandlers

\* C24: the SIGINT/SIGTERM handlers are installed before the tunnel is started
\* and before the PTY is spawned, and stay; a signal from then on runs cleanup:
\* the tunnel subprocess, if one runs, is sent SIGTERM, the relay is stopped,
\* the process exits with 0.
C24_SignalsCovered ==
    /\ (child # "none" \/ startPromise.state # "none" \/ ptyChildren > 0
         \/ phase \in {"serving", "tunnel", "running"}) => sigHandlers
    /\ last.op = "signal" =>
           /\ phase = "exited" /\ exitCode = 0
           /\ teardown = <<"killPTY", "stopWebServer", "stopTunnel", "exit0">>
           /\ RelayStopped
           /\ ~tunnelProcess
           /\ child = "running" => signals = <<"SIGTERM">>
           /\ ~ptyProcess

\* a signal arrived while the tunnel was starting, before any URL
C24_Witness ==
    /\ last.op = "signal"
    /\ child = "running" /\ ~urlFound /\ startPromise.state = "pending"
    /\ signals = <<"SIGTERM">>
    /\ exitCode = 0

(***************************************************************************)
(* Tunnel crash.                                                           *)
(***************************************************************************)
\* C25: a close of the tunnel subprocess after the URL was established leaves
\* the PTY, the relay (client table, sockets, output log, token) and the
\* process as they are; a later PTY exit or signal runs the whole cleanup.
C25_CrashNotFatal ==
    /\ [][(child = "running" /\ child' = "closed" /\ urlFound)
             => UNCHANGED <<relayVars, sockVars, ptyVars, sessVars, downVars>>]_vars
    /\ []((last.op \in {"ptyExit", "signal"} /\ child = "closed") =>
             /\ phase = "exited" /\ exitCode = 0
             /\ teardown = <<"killPTY", "stopWebServer", "stopTunnel", "exit0">>
             /\ RelayStopped /\ ~ptyProcess)

\* the tunnel crashed, the session went on, and the command's exit ended it
C25_Witness ==
    /\ crashCalls # <<>>
    /\ last.op = "ptyExit"
    /\ child = "closed" /\ signals = <<>>
    /\ exitCode = 0

(***************************************************************************)
(* PTY supervisor.                                                         *)
(***************************************************************************)
\* C26: a spawn attempted while a PTY is live fails fast: at most one PTY
\* subprocess is live at any time and a spawn on a live handle changes nothing
\* of the supervisor.  (Violated: spawnPTY has no test of ptyProcess.)
C26_Original ==
    /\ [](ptyChildren <= 1)
    /\ [][(last'.op = "spawnPTY" /\ last'.live) => UNCHANGED ptyVars]_vars

Positive(sz) == sz.cols > 0 /\ sz.rows > 0

\* C27: writeToPTY without a live PTY, and resizePTY without a live PTY or
\* with a size that is not positive in both dimensions, make no call on any
\* handle and leave the supervisor as it is.  (Violated: resizePTY passes any
\* size to a live handle.)
C27_Original ==
    [][((last'.op = "writeToPTY" /\ ~last'.live)
          \/ (last'.op = "resizePTY" /\ (~last'.live \/ ~Positive(last'.size))))
         => (ptyCalls' = <<>> /\ UNCHANGED ptyVars)]_vars

\* the number of invocations of cb in calls
Invocations(calls, cb) == Cardinality({i \in 1..Len(calls) : calls[i].cb = cb})

\* C28: when the PTY subprocess exits, every registered exit callback is
\* invoked exactly once, with the exit code, and afterwards the supervisor
\* holds no handle: a write or a resize makes no call.
C28_ExitNotifiedOnce ==
    last.op = "ptyExit" =>
        /\ \A i \in 1..Len(last.cbs) : Invocations(last.notified, last.cbs[i]) = 1
        /\ \A i \in 1..Len(last.notified) :
              /\ last.notified[i].code = last.code
              /\ \E j \in 1..Len(last.cbs) : last.cbs[j] = last.notified[i].cb
        /\ ~ptyProcess
        /\ writeToPTY(JText) = <<>> /\ resizePTY(<<Size(60, 20)>>) = <<>>

\* the command exited with code 1 and the relay's and the session's callback
\* were invoked
C28_Witness ==
    /\ last.op = "ptyExit" /\ last.code = 1
    /\ last.cbs = <<"relay", "session">>
    /\ Len(last.notified) = 2
    /\ ~ptyProcess

\* C29: in the step in which the PTY terminates, every connected open client
\* is sent exactly one exit message.  (Violated: cleanup on a signal kills the
\* PTY and closes the clients without the message.)
C29_Original ==
    [][(ptyProcess /\ ~ptyProcess') =>
          \A ws \in Reached : Len(out'[ws]) = 1 /\ out'[ws][1].type = "exit"]_vars

(***************************************************************************)
(* Authentication of upgrades.                                             *)
(***************************************************************************)
\* (a) the declared origin, when present, parses as a URL whose host is the
\* Host header
OriginOk(req) ==
    \/ req.origin.kind = "none"
    \/ req.origin.kind = "url" /\ URLHost(req.origin) = req.host

\* (b) the request carries an auth cookie equal to the token
CarriesToken(req, token) ==
    \E i \in 1..Len(req.cookies) :
        req.cookies[i].name = "auth" /\ req.cookies[i].value = token

\* C30: an upgrade reaches the connection handler only if its origin, when
\* present, is a URL with the Host header's host and it carries an auth cookie
\* equal to the token; any other upgrade is answered with 403 and changes
\* neither the client table nor any socket.
C30_UpgradeAuthenticated ==
    /\ [](last.op = "connect" /\ ~last.rejected =>
             /\ OriginOk(last.req) /\ CarriesToken(last.req, serverToken)
             /\ last.ws \in DOMAIN connectedClients)
    /\ [](last.op \in {"connect", "forbidden"}
             /\ ~(OriginOk(last.req) /\ CarriesToken(last.req, serverToken)) =>
             /\ last.op = "forbidden"
             /\ Len(out[last.ws]) = 1
             /\ out[last.ws][1].type = "http" /\ out[last.ws][1].code = 403
             /\ last.ws \notin DOMAIN connectedClients
             /\ readyState[last.ws] = "NONE" /\ ~accepted[last.ws])
    /\ [][last'.op = "forbidden" =>
             UNCHANGED <<relayVars, rateVars, sockVars, ptyVars, sessVars>>]_vars

\* a same-origin request whose cookie agrees with the token on every byte the
\* comparison buffer holds, but is longer, was answered with 403
C30_Witness ==
    /\ last.op = "forbidden" /\ last.text = "Forbidden"
    /\ OriginOk(last.req)
    /\ last.req.cookies = <<Cookie("auth", <<"a", "b", "e'">>)>>
    /\ serverToken = AuthToken
    /\ Cardinality(DOMAIN connectedClients) = 1

\* C31: every refused upgrade is answered with the same response, whatever
\* made it fail.  (Violated: the callback is given 'Origin mismatch' and
\* 'Invalid origin' for the origin failures and 'Forbidden' for the token.)
C31_Original ==
    last.op = "forbidden" =>
        out[last.ws] = <<[type |-> "http", code |-> 403, text |-> "Forbidden"]>>

(***************************************************************************)
(* Malformed messages and resize.                                          *)
(***************************************************************************)
\* the step handles, within the rate ceiling, a message that does not parse
MalformedHandled ==
    /\ last'.op = "message" /\ last'.msg.type = "malformed" /\ ~last'.dropped
    /\ rateVars' # rateVars

\* C32: a message that does not parse is dropped without closing the
\* connection: the log, the client table (sizes and synced flags), the sockets
\* and the PTY stay as they are, nothing is sent, and the connection is still
\* in the table and open; a sync or an input that follows it on the connection
\* is processed as usual.
C32_MalformedDropped ==
    /\ [][MalformedHandled =>
             /\ UNCHANGED <<relayVars, sockVars, ptyVars, recv, declared>>
             /\ out' = NoOut /\ ptyCalls' = <<>>
             /\ last'.ws \in DOMAIN connectedClients'
             /\ readyState'[last'.ws] = "OPEN"]_vars
    /\ []((last.op = "message" /\ last.afterMalformed /\ ~last.dropped) =>
             /\ (last.msg.type = "sync" /\ ~last.synced) =>
                    /\ out[last.ws] = SyncReply(outputBuffer, last.msg.lastSeq)
                    /\ connectedClients[last.ws].synced
             /\ (last.msg.type = "input" /\ last.msg.data.t = "string") =>
                    ptyCalls = writeToPTY(last.msg.data))

\* the first sync of a connection, sent right after a message that did not
\* parse, got the history
C32_Witness ==
    /\ last.op = "message" /\ last.afterMalformed /\ ~last.dropped
    /\ last.msg.type = "sync" /\ ~last.synced
    /\ out[last.ws] # <<>> /\ out[last.ws][1].type = "history"

\* the step handles, within the rate ceiling, a resize message
ResizeHandled ==
    /\ last'.op = "message" /\ last'.msg.type = "resize" /\ ~last'.dropped
    /\ rateVars' # rateVars

\* j is a JSON number that is an integer in (0, max]
IntegerIn(j, max) == j.t = "number" /\ j.h % 2 = 0 /\ j.h > 0 /\ j.h <= 2 * max

\* j is a JSON number, or a string that spells one, that is an integer in (0, max]
ConvertsToIntegerIn(j, max) ==
    j.t \in {"number", "string"} /\ j.h % 2 = 0 /\ j.h > 0 /\ j.h <= 2 * max

\* the resize is accepted: only the sender's size changes, to the message's,
\* and with a live PTY the arbitration applies one size
ResizeAccepted ==
    LET ws == last'.ws
        msg == last'.msg
    IN  /\ connectedClients' = [connectedClients EXCEPT ![ws].cols = msg.cols.h \div 2,
                                                        ![ws].rows = msg.rows.h \div 2]
        /\ ptyProcess => /\ Len(ptyCalls') = 1 /\ ptyCalls'[1].op = "resize"
                         /\ ptySize' = ptyCalls'[1].size
        /\ ~ptyProcess => ptyCalls' = <<>>
        /\ UNCHANGED <<outputBuffer, nextSeq, sockVars>>

\* the resize is rejected: no size changes and nothing is applied
ResizeRejected ==
    /\ UNCHANGED <<connectedClients, ptySize>>
    /\ ptyCalls' = <<>>

\* C33 as stated: a resize is accepted only if cols and rows are integers in
\* (0, 500] and (0, 200].  (Violated: a string that spells such an integer is
\* accepted too.)
C33_Original ==
    [][ResizeHandled =>
          IF IntegerIn(last'.msg.cols, MAX_COLS) /\ IntegerIn(last'.msg.rows, MAX_ROWS)
          THEN ResizeAccepted ELSE ResizeRejected]_vars

\* C33 amended: a resize is accepted exactly if Number(cols) and Number(rows)
\* are integers in (0, 500] and (0, 200]; an accepted resize changes only the
\* sender's negotiated size and re-arbitrates, a rejected one changes no
\* client's size and not the PTY's.
C33_Amended ==
    [][ResizeHandled =>
          IF /\ ConvertsToIntegerIn(last'.msg.cols, MAX_COLS)
             /\ ConvertsToIntegerIn(last'.msg.rows, MAX_ROWS)
          THEN ResizeAccepted ELSE ResizeRejected]_vars

\* rows came as the string "24": the resize was accepted and applied, a second
\* client being connected
C33_Witness ==
    /\ last.op = "message" /\ ~last.dropped
    /\ last.msg = Resize(JNum(2 * 120), JNumStr(2 * 24))
    /\ connectedClients[last.ws].cols = 120
    /\ Cardinality(Connected) = 2
    /\ ptyProcess /\ ptyCalls # <<>>

(***************************************************************************)
(* Stopping the relay.                                                     *)
(***************************************************************************)
\* C34: after stopWebServer() the log and the client table are empty, the
\* token is cleared, no PTY data, exit or resize callback is registered and
\* the scratch directory is gone; on a relay that is already stopped, or was
\* never started, the call changes nothing.
C34_StopRelay ==
    /\ [][last'.op = "stopWebServer" =>
             /\ outputBuffer' = <<>> /\ nextSeq' = 1
             /\ connectedClients' = <<>>
             /\ serverToken' = <<>>
             /\ dataCallbacks' = 0 /\ exitCallbacks' = <<>> /\ resizeCallbacks' = 0
             /\ ~tempDir'
             /\ last'.again =>
                   UNCHANGED <<relayVars, rateVars, sockVars, ptyVars, sessVars,
                               tunVars, downVars>>]_vars
    /\ []((\E i \in 1..Len(teardown) : teardown[i] = "stopWebServer") =>
             /\ outputBuffer = <<>> /\ connectedClients = <<>> /\ serverToken = <<>>
             /\ dataCallbacks = 0 /\ exitCallbacks = <<>> /\ resizeCallbacks = 0
             /\ ~tempDir)

\* the relay was stopped a second time while the session ran with a live PTY
C34_Witness ==
    /\ last.op = "stopWebServer" /\ last.again /\ last.at = "running"
    /\ ptyProcess
    /\ serverToken = <<>> /\ ~tempDir

(***************************************************************************)
(* The rate ceiling over time.                                             *)
(***************************************************************************)
RECURSIVE SumTo(_, _)
SumTo(f, a) == IF a < 0 THEN 0 ELSE f[a] + SumTo(f, a - 1)

\* the messages of ws processed in the last MSG_RATE_WINDOW_MS ticks: the
\* interval of that length that ends now
ProcessedInWindow(ws) == SumTo(arrivals[ws], MSG_RATE_WINDOW_MS - 1)

\* C35: in every interval of length MSG_RATE_WINDOW_MS, wherever it starts, at
\* most MSG_RATE_LIMIT messages of a connection are processed.  (Violated:
\* the window is a fixed one, restarted by the first message after it ran
\* out; a full window's worth at its end and another at the start of the next
\* lie within two ticks.)
C35_Original ==
    \A ws \in Sockets : ProcessedInWindow(ws) <= MSG_RATE_LIMIT

(***************************************************************************)
(* Delivery failures during fan-out (SpecFanout).                          *)
(***************************************************************************)
\* the connections other than ws that are in the client table and open
OtherOpen(ws) ==
    {w \in Sockets \ {ws} : w \in DOMAIN connectedClients /\ readyState[w] = "OPEN"}

\* the transport of ws has failed or is closing: sends to it go nowhere
Failing(ws) == accepted[ws] /\ readyState[ws] = "CLOSING"

\* C36: fan-out is best-effort per connection.  The failure of one connection
\* (its error event, or its socket no longer open during a broadcast) touches
\* that connection only: every other open connection in the table gets the
\* chunk or the exit message being broadcast, the chunk is appended to the
\* log, and the relay stays subscribed to the PTY's output, so later chunks
\* are broadcast too.
C36_FanoutBestEffort ==
    [][/\ \A ws \in Sockets :
            OnError(ws) =>
                /\ \A w \in Sockets \ {ws} :
                       /\ readyState'[w] = readyState[w]
                       /\ (w \in DOMAIN connectedClients) = (w \in DOMAIN connectedClients')
                       /\ w \in DOMAIN connectedClients => connectedClients'[w] = connectedClients[w]
                       /\ recv'[w] = recv[w]
                /\ outputBuffer' = outputBuffer /\ nextSeq' = nextSeq
                /\ dataCallbacks' = dataCallbacks /\ exitCallbacks' = exitCallbacks
                /\ ptyProcess' = ptyProcess /\ phase' = phase
       /\ \A ws \in Sockets : \A data \in Chunks :
            Failing(ws) /\ PTYData(data) =>
                /\ \A w \in OtherOpen(ws) :
                       out'[w] = <<[type |-> "output", seq |-> nextSeq, data |-> data]>>
                /\ outputBuffer' = AppendToLog(outputBuffer, nextSeq, data)
                /\ dataCallbacks' = dataCallbacks /\ ptyProcess' = ptyProcess
       /\ \A ws \in Sockets : \A code \in ExitCodes :
            Failing(ws) /\ PTYExit(code) =>
                \A w \in OtherOpen(ws) : out'[w] = <<[type |-> "exit", code |-> code]>>
      ]_vars

\* socket 1 failed and was removed by its error handler; the next chunk
\* reached socket 2 and the log, and a later one did too
C36_Witness ==
    /\ last.op = "data"
    /\ Failing(1) /\ 1 \notin DOMAIN connectedClients
    /\ 2 \in DOMAIN connectedClients /\ readyState[2] = "OPEN"
    /\ out[2] = <<[type |-> "output", seq |-> nextSeq - 1, data |-> last.data]>>
    /\ out[1] = <<>>
    /\ Len(recv[2]) >= 2 /\ Len(recv[1]) < Len(recv[2])
    /\ outputBuffer # <<>> /\ outputBuffer[Len(outputBuffer)].seq = nextSeq - 1

(***************************************************************************)
(* Termination of the start-up (SpecStartup).                              *)
(***************************************************************************)
\* startSession is over: the session runs or the process has exited
StartupOver == phase \in {"running", "exited"}

C40_Original ==
    (last.op = "earlierClose" /\ last.live) =>
        /\ tunnelProcess = last.proc
        /\ tunnelUrl = last.url
        /\ intentionalStop = last.stop

(***************************************************************************)
(* Replay and live stream on one connection (SpecPage).                    *)
(***************************************************************************)
\* C38: on a single connection no chunk is delivered twice or out of order
\* across the replay and the live stream: the sequence numbers the page gets
\* through output messages and the history-delta reply are strictly
\* increasing in the order of arrival.  (Violated: a chunk broadcast between
\* the accept and the handling of the sync message is sent as output and is
\* covered again by the history-delta reply.)
C38_Original ==
    \A i, j \in 1..Len(page.seen) : i < j => page.seen[i] < page.seen[j]

\* the page has reconnected, its sync has been handled, the reply has been
\* read, and the PTY has emitted nothing since the relay accepted the socket
Replayed ==
    /\ phase # "exited"
    /\ page.state = "open" /\ page.opens >= 2
    /\ page.sync = -1 /\ page.reply = <<>>
    /\ recv[1] = <<>>

\* C39: replay converges: once the reconnecting page's sync has been handled
\* with no PTY output in between, the page's lastSeq is the newest sequence
\* number the relay has assigned.  (Violated: after a chunk that cleared the
\* screen and left the log empty the sync branch sends nothing.)
C39_Original ==
    Replayed => page.lastSeq = nextSeq - 1

====
